---- MODULE Spec2Model ----
(***************************************************************************)
(* Remote-service harvesting adapters for OGC SOS and SensorThings (STA):  *)
(* the STA client (pagination, by-id lookup, one-hour listing cache) and   *)
(* the per-resource harvest workflow of the two service handlers.          *)
(***************************************************************************)
EXTENDS Integers, Sequences, FiniteSets, TLC

(***************************************************************************)
(* Bounds of the model                                                     *)
(***************************************************************************)
MaxPages == 3
MaxTime == 4
MaxCalls == 3
MaxLinkedCalls == 2
NumProcs == 2

(***************************************************************************)
(* Python values                                                           *)
(***************************************************************************)
\* Python's None for an optional value, and a present value x
None == <<>>
Some(x) == <<x>>

\* JSON null as the value of an object member whose values are strings
Null == "null"

\* the outcome of a call: a returned value or a raised exception, with the
\* URLs handed to http_get by that call, in order
Return(v, gets) == [kind |-> "return", val |-> v, err |-> "", gets |-> gets]
Raise(e, gets) == [kind |-> "raise", val |-> None, err |-> e, gets |-> gets]

(***************************************************************************)
(* sta.py constants                                                        *)
(***************************************************************************)
DATASTREAMS == "Datastreams"
FEATURES_OF_INTEREST == "FeaturesOfInterest"
OBSERVED_PROPERTIES == "ObservedProperties"
SENSORS == "Sensors"
THINGS == "Things"
FILTER_OBSERVATION_DATASTREAM_ID_EQ == "?$filter=Observations/Datastream/id eq '"
FILTER_DATASTREAMS_ID_EQ == "?$filter=Datastreams/id eq '"
SELECT_ID_NAME == "$select=id,name"
VALUE == "value"
NAME == "name"
DESCRIPTION == "description"
IOT_ID == "@iot.id"
IOT_NEXT_LINK == "@iot.nextLink"

\* one hour (timedelta(hours=1)) in clock ticks of the model: a tick is 30 min
HourTicks == 2

\* self.url of the client: url.rstrip('/') + '/'
ClientUrl == "http://sta/"

(***************************************************************************)
(* The remote: a function from URL to the answer of http_get(url).json()   *)
(*   st = "fail": the request or the JSON decoding raises                  *)
(*   st = "null": the body is the JSON value null                          *)
(*   st = "ok"  : body is the JSON object, a record over its member names  *)
(***************************************************************************)
EmptyObj == [k \in {} |-> 0]
RespFail == [st |-> "fail", body |-> EmptyObj]
RespNull == [st |-> "null", body |-> EmptyObj]
RespOk(body) == [st |-> "ok", body |-> body]

\* the default of ogc_server_settings.get('TIMEOUT', 60)
DefaultTimeout == 60
\* settings.OGC_SERVER['default'] as the deployments set it: without a
\* TIMEOUT, with a number of seconds (Some(n)) or with None
OgcServers == {EmptyObj, ("TIMEOUT" :> Some(10)), ("TIMEOUT" :> None)}

\* the timeout parsed_service configures the client with:
\* ogc_server_settings.get('TIMEOUT', 60), kept by __init__ as self.timeout
ClientTimeout(ogc_server_settings) ==
    IF "TIMEOUT" \in DOMAIN ogc_server_settings
    THEN ogc_server_settings["TIMEOUT"]
    ELSE Some(DefaultTimeout)

\* the keyword arguments __get_json_data passes to http_get for a url
HttpGetArgs(url) ==
    ("url" :> url) @@ ("headers" :> "REQUEST_HEADERS") @@ ("auth" :> None)

\* BaseSensorThingsService.__get_json_data
GetJsonData(rem, url) ==
    LET request == HttpGetArgs(url)
    IN  IF request["url"] \in DOMAIN rem THEN rem[request["url"]] ELSE RespFail

\* `v is None` on a decoded JSON value: the JSON value null
IsNull(v) == ToString(v) = ToString(Null)

\* BaseSensorThingsService.__get_value: response[key], which is None for a
\* member that is null as for a member that is not there
GetValue(key, response) ==
    IF key \in DOMAIN response /\ ~IsNull(response[key])
    THEN Some(response[key]) ELSE None

\* BaseSensorThingsService.__get_next_link
GetNextLink(response) == GetValue(IOT_NEXT_LINK, response)

\* `.json()` applied to what __get_json_data returned, which is already the
\* decoded JSON value (dict, list or None): the attribute does not exist
JsonOfDecoded(got) == [st |-> "raise", body |-> EmptyObj]

\* the while loop of __get_elements
RECURSIVE FollowNextLinks(_, _, _, _)
FollowNextLinks(rem, elements, nextLink, gets) ==
    IF nextLink = None
    THEN Return(Some(elements), gets)
    ELSE LET url == nextLink[1]
             got == GetJsonData(rem, url)
             gets2 == Append(gets, url)
         IN  IF got.st = "fail"
             THEN Raise("FetchError", gets2)
             ELSE LET response == JsonOfDecoded(got)
                  IN  IF response.st = "raise"
                      THEN Raise("AttributeError", gets2)
                      ELSE IF response.st = "null"
                      THEN Raise("NoProgress", gets2)
                      ELSE LET temp == GetValue(VALUE, response.body)
                           IN  IF temp = None
                               THEN Raise("TypeError", gets2)
                               ELSE FollowNextLinks(rem, elements \o temp[1],
                                                    GetNextLink(response.body), gets2)

\* BaseSensorThingsService.__get_elements
GetElements(rem, url) ==
    LET got == GetJsonData(rem, url)
        gets == <<url>>
    IN  IF got.st = "fail" THEN Raise("FetchError", gets)
        ELSE IF got.st = "null" THEN Return(None, gets)
        ELSE LET elements == GetValue(VALUE, got.body)
                 nextLink == GetNextLink(got.body)
             IN  IF elements = None
                 THEN Return(None, gets)
                 ELSE FollowNextLinks(rem, elements[1], nextLink, gets)

\* BaseSensorThingsService.__get_name on a list of items
RECURSIVE NamesOf(_)
NamesOf(data) ==
    IF data = <<>> THEN Some(<<>>)
    ELSE LET item == Head(data)
             rest == NamesOf(Tail(data))
         IN  IF NAME \notin DOMAIN item \/ rest = None THEN None
             ELSE IF item[NAME] /= Null THEN Some(<<item[NAME]>> \o rest[1])
             ELSE IF IOT_ID \notin DOMAIN item THEN None
             ELSE Some(<<item[IOT_ID]>> \o rest[1])

\* BaseSensorThingsService.__get_name applied to the outcome of __get_elements
GetName(r) ==
    IF r.kind = "raise" THEN r
    ELSE IF r.val = None THEN Raise("TypeError", r.gets)
    ELSE LET l == NamesOf(r.val[1])
         IN  IF l = None THEN Raise("KeyError", r.gets) ELSE Return(l, r.gets)

\* BaseSensorThingsService.__get_by_identifier
GetByIdentifier(rem, resource, identifier) ==
    LET quoted == ClientUrl \o resource \o "('" \o identifier \o "')"
        plain == ClientUrl \o resource \o "(" \o identifier \o ")"
        data == GetJsonData(rem, quoted)
    IN  IF data.st = "fail" THEN Raise("FetchError", <<quoted>>)
        ELSE IF data.st = "null" THEN Raise("TypeError", <<quoted>>)
        ELSE IF "error" \notin DOMAIN data.body THEN Raise("KeyError", <<quoted>>)
        ELSE IF data.body["error"] /= Null
        THEN LET data2 == GetJsonData(rem, plain)
             IN  IF data2.st = "fail" THEN Raise("FetchError", <<quoted, plain>>)
                 ELSE IF data2.st = "null" THEN Return(None, <<quoted, plain>>)
                 ELSE Return(Some(data2.body), <<quoted, plain>>)
        ELSE Return(Some(data.body), <<quoted>>)

\* the staleness test of getDatastreams:
\* datetime.now() - timedelta(hours=1) > self.lastUpdate
IsStaleInclusive(t, last) == t - HourTicks >= last
IsStale(t, last) == t - HourTicks > last

VARIABLES
    remote,       \* the STA remote the client talks to
    datastreams,  \* client.datastreams: the cached listing, or None
    lastUpdate,   \* client.lastUpdate
    now,          \* datetime.now()
    lastOp,       \* the client or handler method called last
    ret,          \* what that call returned or raised, and the GETs it issued
    settings,     \* django settings read by harvest_resource
    datasets,     \* the catalog: Dataset rows
    links,        \* the catalog: Link rows
    pc,           \* per caller: the stage its harvest_resource call is in
    call,         \* per caller: the handler (family), resource_id and service
    meta,         \* per caller: dataset_meta / offering
    fields,       \* per caller: resource_fields
    created,      \* per caller: geonode_dataset (its primary key; 0: none)
    step,         \* per caller: the catalog calls of its stage already made
    results,      \* the calls that ended, in order: outcome, stage, resource_fields
    arg,          \* the arguments of the factory or URL function under call
    history,      \* the get_resources calls made on one STA handler, in order
    geoserver     \* the GeoServer catalog: its stores, and its creation requests

listVars == <<remote, datastreams, lastUpdate, now, lastOp, ret>>
harvestVars == <<settings, datasets, links, pc, call, meta, fields, created, step, results>>
vars == <<remote, datastreams, lastUpdate, now, lastOp, ret,
          settings, datasets, links, pc, call, meta, fields, created, step, results, arg,
          history, geoserver>>

(***************************************************************************)
(* Remotes used to exercise the client: every collection is a chain of n   *)
(* pages; page failAt (0: none) fails to load, page noValue (0: none) has  *)
(* no value member, and the last page carries no next link (endLink =      *)
(* "absent"), an empty one (endLink = "empty") or null (endLink = "null")  *)
(***************************************************************************)
ListIds == {"a"}
ByIdShapes == {"record", "errorThenRecord", "nullError", "errorBoth"}

EntryId(k) == "id" \o ToString(k)
Entry(k) ==
    (IOT_ID :> EntryId(k))
    @@ (NAME :> IF k = 2 THEN Null ELSE "n" \o ToString(k))
    @@ (DESCRIPTION :> "d")
PageValue(i) == <<Entry(2 * i - 1), Entry(2 * i)>>
NextUrl(i) == ClientUrl \o "page" \o ToString(i)

RECURSIVE ChainValues(_)
ChainValues(n) == IF n = 0 THEN <<>> ELSE ChainValues(n - 1) \o PageValue(n)

PageBody(i, n, endLink, noValue) ==
    (IF i = noValue THEN EmptyObj ELSE (VALUE :> PageValue(i)))
    @@ (IF i < n THEN (IOT_NEXT_LINK :> NextUrl(i + 1))
        ELSE IF endLink = "empty" THEN (IOT_NEXT_LINK :> "")
        ELSE IF endLink = "null" THEN (IOT_NEXT_LINK :> Null)
        ELSE EmptyObj)
Page(i, n, failAt, endLink, noValue) ==
    IF i = failAt THEN RespFail ELSE RespOk(PageBody(i, n, endLink, noValue))

DatastreamRecord(id) ==
    (IOT_ID :> id) @@ (NAME :> "n-" \o id) @@ (DESCRIPTION :> "d")
ErrorBody == ("error" :> "Not found")

CollectionUrls ==
    {ClientUrl \o DATASTREAMS,
     ClientUrl \o FEATURES_OF_INTEREST,
     ClientUrl \o SENSORS \o "?" \o SELECT_ID_NAME}
    \cup {ClientUrl \o FEATURES_OF_INTEREST \o FILTER_OBSERVATION_DATASTREAM_ID_EQ
              \o id \o "'" : id \in ListIds}
CountUrl == ClientUrl \o DATASTREAMS \o "?$count=true&$top=1"
QuotedUrl(id) == ClientUrl \o DATASTREAMS \o "('" \o id \o "')"
PlainUrl(id) == ClientUrl \o DATASTREAMS \o "(" \o id \o ")"

ListRemote(n, failAt, endLink, noValue, shape) ==
    [u \in CollectionUrls |-> Page(1, n, failAt, endLink, noValue)]
    @@ [u \in {NextUrl(i) : i \in 2..n} |->
            LET i == CHOOSE j \in 2..n : NextUrl(j) = u
            IN  Page(i, n, failAt, endLink, noValue)]
    @@ (CountUrl :> IF failAt = 1 THEN RespFail
                    ELSE IF noValue = 1 THEN RespOk(EmptyObj)
                    ELSE RespOk(("@iot.count" :> 2 * n)))
    @@ [u \in {QuotedUrl(id) : id \in ListIds} |->
            LET id == CHOOSE j \in ListIds : QuotedUrl(j) = u
            IN  CASE shape = "record" -> RespOk(DatastreamRecord(id))
                  [] shape = "nullError" ->
                         RespOk(DatastreamRecord(id) @@ ("error" :> Null))
                  [] OTHER -> RespOk(ErrorBody)]
    @@ [u \in {PlainUrl(id) : id \in ListIds} |->
            LET id == CHOOSE j \in ListIds : PlainUrl(j) = u
            IN  IF shape = "errorBoth" THEN RespOk(ErrorBody)
                ELSE RespOk(DatastreamRecord(id))]

(***************************************************************************)
(* The STA client: BaseSensorThingsService                                 *)
(***************************************************************************)
\* the client right after BaseSensorThingsService.__init__
NewClient == [datastreams |-> None, lastUpdate |-> 0]

\* BaseSensorThingsService.getDatastreams with __update_datastreams, on a
\* client c at time t: the outcome and the client afterwards
ClientGetDatastreams(rem, c, t) ==
    IF c.datastreams = None \/ IsStale(t, c.lastUpdate)
    THEN LET r == GetElements(rem, ClientUrl \o DATASTREAMS)
         IN  IF r.kind = "raise"
             THEN [out |-> r, client |-> c]
             ELSE [out |-> r, client |-> [datastreams |-> r.val, lastUpdate |-> t]]
    ELSE [out |-> Return(c.datastreams, <<>>), client |-> c]

\* BaseSensorThingsService.hasDatastreams
HasDatastreams(rem) ==
    LET data == GetJsonData(rem, ClientUrl \o DATASTREAMS \o "?$count=true&$top=1")
        gets == <<ClientUrl \o DATASTREAMS \o "?$count=true&$top=1">>
    IN  IF data.st = "fail" THEN Raise("FetchError", gets)
        ELSE IF data.st = "null" THEN Raise("TypeError", gets)
        ELSE LET count == GetValue("@iot.count", data.body)
             IN  Return(Some(count /= None /\ count[1] > 0), gets)

\* BaseSensorThingsService.getFeaturesForDatastream
GetFeaturesForDatastream(rem, id) ==
    GetElements(rem, ClientUrl \o FEATURES_OF_INTEREST
                     \o FILTER_OBSERVATION_DATASTREAM_ID_EQ \o id \o "'")

\* StaServiceHandler._dataset_meta
DatasetMeta(datastream) ==
    [id |-> GetValue(IOT_ID, datastream),
     title |-> GetValue(NAME, datastream),
     abstract |-> GetValue(DESCRIPTION, datastream)]

\* StaServiceHandler._parse_datasets
ParseDatasets(l) == [i \in 1..Len(l) |-> DatasetMeta(l[i])]

\* StaServiceHandler.get_resources: parsed_service builds a new client for
\* the call; any exception is printed and None returned
StaGetResources(rem, t) ==
    LET r == ClientGetDatastreams(rem, NewClient, t).out
    IN  IF r.kind = "raise" \/ r.val = None
        THEN Return(None, r.gets)
        ELSE Return(Some(ParseDatasets(r.val[1])), r.gets)

(***************************************************************************)
(* The remotes of the harvest workflow                                     *)
(***************************************************************************)
RIds == {"a", "b", "c", "d"}
\* the resource ids harvested by overlapping callers
ConcRIds == {"a"}
Families == {"SOS", "STA"}

\* a string of n characters, n at most 150
Chars50 == "1234567890" \o "1234567890" \o "1234567890" \o "1234567890" \o "1234567890"
Chars(n) == SubSeq(Chars50 \o Chars50 \o Chars50, 1, n)

\* an item of a name listing ($select=id,name)
Named(id, name) == (IOT_ID :> id) @@ (NAME :> name)
\* a feature of interest with a point geometry
Feature(id, x, y) ==
    (IOT_ID :> id) @@ (NAME :> id) @@ ("feature" :> [coordinates |-> <<x, y>>])
OnePage(value) == RespOk((VALUE :> value))

FeaturesUrl(id) ==
    ClientUrl \o FEATURES_OF_INTEREST \o FILTER_OBSERVATION_DATASTREAM_ID_EQ \o id \o "'"
FeatureNamesUrl(id) == FeaturesUrl(id) \o "&" \o SELECT_ID_NAME
NamesUrl(collection, id) ==
    ClientUrl \o collection \o FILTER_DATASTREAMS_ID_EQ \o id \o "'" \o "&" \o SELECT_ID_NAME

\* a datastream as the remote serves it; area is None for "observedArea": null
StaRecord(id, name, area) ==
    (IOT_ID :> id) @@ (NAME :> name) @@ (DESCRIPTION :> "d-" \o id)
    @@ ("observedArea" :> area)

\* The STA remote of the harvest workflow:
\*   a: served under the unquoted id, with a 4-number observedArea
\*   b: served under the unquoted id, with a 2-number observedArea
\*   c: served under the unquoted id, named like a, observedArea null and
\*      two features of interest
\*   d: served under the quoted id (the answer has no error member)
StaKeywordPages(id) ==
    (FeatureNamesUrl(id) :> OnePage(<<Named("f1", "station"), Named("f2", Chars(100))>>))
    @@ (NamesUrl(OBSERVED_PROPERTIES, id) :> OnePage(<<Named("o1", "temperature")>>))
    @@ (NamesUrl(SENSORS, id) :> OnePage(<<Named("s1", Null)>>))
    @@ (NamesUrl(THINGS, id) :> OnePage(<<Named("t1", Chars(150))>>))
HarvestRemote ==
    (QuotedUrl("a") :> RespOk(ErrorBody))
    @@ (PlainUrl("a") :> RespOk(StaRecord("a", "Café 1", Some(<<1, 2, 3, 4>>))))
    @@ StaKeywordPages("a")
    @@ (QuotedUrl("b") :> RespOk(ErrorBody))
    @@ (PlainUrl("b") :> RespOk(StaRecord("b", "n2", Some(<<1, 2>>))))
    @@ StaKeywordPages("b")
    @@ (QuotedUrl("c") :> RespOk(ErrorBody))
    @@ (PlainUrl("c") :> RespOk(StaRecord("c", "Café 1", None)))
    @@ (FeaturesUrl("c") :> OnePage(<<Feature("f1", 5, 8), Feature("f2", 7, 6)>>))
    @@ StaKeywordPages("c")
    @@ (QuotedUrl("d") :> RespOk(StaRecord("d", "n4", Some(<<1, 2, 3, 4>>))))
    @@ (PlainUrl("d") :> RespOk(StaRecord("d", "n4", Some(<<1, 2, 3, 4>>))))
    @@ StaKeywordPages("d")

\* parsed_service.contents of the SOS remote: offerings a, b (2-number bbox)
\* and c (titled like a); d is not offered
Offering(id, name, bbox) ==
    [id |-> id, name |-> name, description |-> "d-" \o id,
     bbox |-> bbox, bbox_srs |-> None,
     observed_properties |-> {"temperature"},
     procedures |-> {"thermo", Chars(150), Chars(101)},
     features_of_interest |-> {"station"},
     begin_position |-> None, end_position |-> None]
SosContents ==
    ("a" :> Offering("a", "Alpha 1", <<1, 2, 3, 4>>))
    @@ ("b" :> Offering("b", "beta", <<1, 2>>))
    @@ ("c" :> Offering("c", "Alpha 1", <<5, 6, 7, 8>>))

\* The remote a behaviour runs against is named by a descriptor: a chain of
\* pages with its by-id answers, or the remote of the harvest workflow
ChainRemote(n, failAt, endLink, noValue, shape) ==
    [kind |-> "chain", pages |-> n, failAt |-> failAt, endLink |-> endLink,
     noValue |-> noValue, shape |-> shape]
TheHarvestRemote ==
    [kind |-> "harvest", pages |-> 0, failAt |-> 0, endLink |-> "absent",
     noValue |-> 0, shape |-> "errorThenRecord"]
ListRemotes ==
    UNION {{ChainRemote(n, f, e, v, s) :
               f \in 0..n, e \in {"absent", "empty", "null"}, v \in 0..n, s \in ByIdShapes} :
           n \in 1..MaxPages}
\* A remote of name listings: each of the four collections answers with
\* named items ("names"), with "value": [] ("empty") or with an object that
\* has no value member ("noValue")
KeywordShapes == {"names", "empty", "noValue"}
KeywordRemote(o, f, s, t) ==
    [kind |-> "keywords", observed |-> o, features |-> f, sensors |-> s, things |-> t]
KeywordRemotes ==
    {KeywordRemote(o, f, s, t) : o \in KeywordShapes, f \in KeywordShapes,
                                 s \in KeywordShapes, t \in KeywordShapes}
NameListing(shape, name) ==
    CASE shape = "names" -> OnePage(<<Named("i1", name), Named("i2", Null)>>)
      [] shape = "empty" -> OnePage(<<>>)
      [] OTHER -> RespOk(EmptyObj)
AllNamesUrl(collection) == ClientUrl \o collection \o "?" \o SELECT_ID_NAME
KeywordAnswers(r) ==
    (AllNamesUrl(OBSERVED_PROPERTIES) :> NameListing(r.observed, "temperature"))
    @@ (AllNamesUrl(FEATURES_OF_INTEREST) :> NameListing(r.features, "station"))
    @@ (AllNamesUrl(SENSORS) :> NameListing(r.sensors, "thermo"))
    @@ (AllNamesUrl(THINGS) :> NameListing(r.things, "mast"))
    @@ [u \in {NamesUrl(OBSERVED_PROPERTIES, id) : id \in ListIds} |->
            NameListing(r.observed, "temperature")]
    @@ [u \in {FeatureNamesUrl(id) : id \in ListIds} |->
            NameListing(r.features, "station")]
    @@ [u \in {NamesUrl(SENSORS, id) : id \in ListIds} |->
            NameListing(r.sensors, "thermo")]
    @@ [u \in {NamesUrl(THINGS, id) : id \in ListIds} |->
            NameListing(r.things, "mast")]

\* A remote of one datastream "e" without observedArea: points holds the
\* coordinates of its features of interest, name tells whether the record
\* has a name ("named"), "name": null ("null") or no name member
\* ("missing"), and sensor tells the same of the item of its sensor listing
MaxFeatures == 2
Coordinates == 1..3
NameShapes == {"named", "null", "missing"}
RECURSIVE PointLists(_)
PointLists(n) ==
    IF n = 0 THEN {<<>>}
    ELSE LET shorter == PointLists(n - 1)
         IN  shorter \cup {Append(l, <<x, y>>) :
                               l \in {k \in shorter : Len(k) = n - 1},
                               x \in Coordinates, y \in Coordinates}
FieldsRemote(points, name, sensor) ==
    [kind |-> "fields", points |-> points, name |-> name, sensor |-> sensor]
FieldsRemotes ==
    {FieldsRemote(l, n, s) : l \in PointLists(MaxFeatures), n \in NameShapes, s \in NameShapes}
WithName(item, shape, name) ==
    CASE shape = "named" -> item @@ (NAME :> name)
      [] shape = "null" -> item @@ (NAME :> Null)
      [] OTHER -> item
FieldsRecord(r) ==
    WithName((IOT_ID :> "e") @@ (DESCRIPTION :> "d-e") @@ ("observedArea" :> None),
             r.name, "n5")
FieldsAnswers(r) ==
    (QuotedUrl("e") :> RespOk(ErrorBody))
    @@ (PlainUrl("e") :> RespOk(FieldsRecord(r)))
    @@ (FeaturesUrl("e") :>
            OnePage([i \in 1..Len(r.points) |->
                        Feature("f" \o ToString(i), r.points[i][1], r.points[i][2])]))
    @@ (NamesUrl(SENSORS, "e") :> OnePage(<<WithName((IOT_ID :> "s1"), r.sensor, "thermo")>>))
    @@ StaKeywordPages("e")

\* the answers of the remote a descriptor names
Responses(r) ==
    IF r.kind = "harvest" THEN HarvestRemote
    ELSE IF r.kind = "keywords" THEN KeywordAnswers(r)
    ELSE IF r.kind = "fields" THEN FieldsAnswers(r)
    ELSE ListRemote(r.pages, r.failAt, r.endLink, r.noValue, r.shape)

\* geonode_service of each handler: the saved Service row
Service(family) ==
    IF family = "SOS"
    THEN [name |-> "httpsos", method |-> "INDEXED", service_url |-> "http://sos/",
          operations |-> ("GetCapabilities" :>
              [methods |-> <<[type |-> "Post", url |-> "http://sos/post"],
                             [type |-> "Get", url |-> "http://sos/get"]>>])]
    ELSE [name |-> "httpsta", method |-> "INDEXED", service_url |-> "http://sta/",
          operations |-> EmptyObj]

\* handler.name: slugify(self.url)[:255]
HandlerName(family) == IF family = "SOS" THEN "httpsos" ELSE "httpsta"

(***************************************************************************)
(* Normalization: _get_indexed_dataset_fields                              *)
(***************************************************************************)
\* keyword[:100]
KeywordMax == 100
KeywordWhole(keyword) == keyword
Keyword100(keyword) ==
    IF Len(keyword) <= KeywordMax THEN keyword ELSE SubSeq(keyword, 1, KeywordMax)

\* [keyword[:100] for keyword in keywords] over a set of keywords: a list
\* in the set's iteration order, kept as the number of times each entry
\* occurs in it
Keywords100(keywords) ==
    [k \in {Keyword100(kw) : kw \in keywords} |->
        Cardinality({kw \in keywords : Keyword100(kw) = k})]

\* str.upper() on the method types of the model
Upper(str) ==
    CASE str \in {"Get", "get", "GET"} -> "GET"
      [] str \in {"Post", "post", "POST"} -> "POST"
      [] OTHER -> str

\* the characters of a string, and the alphabet the strings of the model
\* are written in: ASCII (the characters with ord(c) < 128, those of
\* AsciiChars; the grave accent and the control characters other than
\* white space are left out) and the Latin-1 letters and signs up to U+00FF
CharsOf(str) == {SubSeq(str, i, i) : i \in 1..Len(str)}
LowerChars == "abcdefghijklmnopqrstuvwxyz"
UpperChars == "ABCDEFGHIJKLMNOPQRSTUVWXYZ"
DigitChars == "0123456789"
SpaceChars == " \t\n\r\f"
OtherChars == "!\"#$%&'()*+,./:;<=>?@[\\]^{|}~"
AsciiChars ==
    CharsOf(LowerChars) \cup CharsOf(UpperChars) \cup CharsOf(DigitChars)
    \cup CharsOf(SpaceChars) \cup CharsOf(OtherChars) \cup {"-", "_"}

\* a string as the list of its characters, and a list of strings as one
\* string
CharList(str) == [i \in 1..Len(str) |-> SubSeq(str, i, i)]
RECURSIVE Joined(_, _)
Joined(list, n) == IF n = 0 THEN "" ELSE Joined(list, n - 1) \o list[n]

\* ''.join(c for c in name if ord(c) < 128)
IsAscii(c) == c \in AsciiChars
AsciiOnly(str) ==
    CHOOSE out \in {Joined(kept, Len(kept)) :
                        kept \in {SelectSeq(CharList(str), IsAscii)}} : TRUE

\* unicodedata.normalize('NFKD', c).encode('ascii', 'ignore') of slugify,
\* on one character: each ASCII form with the characters that leave it (an
\* accented letter leaves its base letter, a fraction its digits, a
\* spacing accent or the no-break space a space); any
\* other character outside ASCII leaves nothing
AsciiForms ==
    <<<<" ", " ¨¯´¸">>,
      <<"1", "¹">>,
      <<"2", "²">>,
      <<"3", "³">>,
      <<"A", "ÀÁÂÃÄÅ">>,
      <<"C", "Ç">>,
      <<"E", "ÈÉÊË">>,
      <<"I", "ÌÍÎÏ">>,
      <<"N", "Ñ">>,
      <<"O", "ÒÓÔÕÖ">>,
      <<"U", "ÙÚÛÜ">>,
      <<"Y", "Ý">>,
      <<"a", "ªàáâãäå">>,
      <<"c", "ç">>,
      <<"e", "èéêë">>,
      <<"i", "ìíîï">>,
      <<"n", "ñ">>,
      <<"o", "ºòóôõö">>,
      <<"u", "ùúûü">>,
      <<"y", "ýÿ">>,
      <<"12", "½">>,
      <<"14", "¼">>,
      <<"34", "¾">>>>
AsciiOf(c) ==
    IF c \in AsciiChars THEN c
    ELSE IF \E i \in DOMAIN AsciiForms : c \in CharsOf(AsciiForms[i][2])
    THEN AsciiForms[CHOOSE i \in DOMAIN AsciiForms : c \in CharsOf(AsciiForms[i][2])][1]
    ELSE ""

\* str.lower() of one character
UpperLatin == "ÀÁÂÃÄÅÆÇÈÉÊËÌÍÎÏÐÑÒÓÔÕÖØÙÚÛÜÝÞ"
LowerLatin == "àáâãäåæçèéêëìíîïðñòóôõöøùúûüýþ"
LowerOf(c) ==
    IF c \in CharsOf(UpperChars)
    THEN LET i == CHOOSE j \in 1..Len(UpperChars) : SubSeq(UpperChars, j, j) = c
         IN  SubSeq(LowerChars, i, i)
    ELSE IF c \in CharsOf(UpperLatin)
    THEN LET i == CHOOSE j \in 1..Len(UpperLatin) : SubSeq(UpperLatin, j, j) = c
         IN  SubSeq(LowerLatin, i, i)
    ELSE c

\* the characters re.sub(r'[^\w\s-]', '', value) keeps, those of a run
\* r'[-\s]+', and those str.strip('-_') takes from the ends
IsSlugChar(c) ==
    c \in CharsOf(LowerChars) \cup CharsOf(DigitChars) \cup CharsOf(SpaceChars)
          \cup {"-", "_"}
IsSeparator(c) == c \in CharsOf(SpaceChars) \cup {"-"}
IsInner(c) == c \notin {"-", "_"}
IsChar(c) == c /= ""

\* the ASCII form of a string, and re.sub(r'[^\w\s-]', '', value.lower())
\* of slugify on it
AsciiForm(str) == Joined([i \in 1..Len(str) |-> AsciiOf(SubSeq(str, i, i))], Len(str))
SlugChars(str) ==
    CHOOSE out \in
        {SelectSeq([i \in 1..Len(ascii) |-> LowerOf(SubSeq(ascii, i, i))], IsSlugChar) :
            ascii \in {AsciiForm(str)}} : TRUE

\* re.sub(r'[-\s]+', '-', value): every run of hyphens and spaces is one
\* hyphen
Hyphenated(list) ==
    SelectSeq([i \in 1..Len(list) |->
                  IF ~IsSeparator(list[i]) THEN list[i]
                  ELSE IF i < Len(list) /\ IsSeparator(list[i + 1]) THEN ""
                  ELSE "-"],
              IsChar)

\* str.strip('-_')
Stripped(list) ==
    LET inner == {i \in 1..Len(list) : IsInner(list[i])}
    IN  IF inner = {} THEN <<>>
        ELSE SubSeq(list, CHOOSE i \in inner : \A j \in inner : i <= j,
                          CHOOSE i \in inner : \A j \in inner : i >= j)

\* django.template.defaultfilters.slugify: the three steps, one after the
\* other
Slugify(value) ==
    CHOOSE out \in
        {Joined(stripped, Len(stripped)) :
            stripped \in {Stripped(hyphenated) :
                hyphenated \in {Hyphenated(kept) :
                    kept \in {SlugChars(value)}}}} : TRUE

\* the same, made unique against the Dataset rows of the catalog as a
\* valid-name helper would: a typename a row carries gets a suffix
TypenameUnique(id, name) ==
    CHOOSE out \in
        {IF \E d \in datasets : d.typename = slug THEN slug \o "-1" ELSE slug :
            slug \in {Slugify(id \o "-" \o ascii) : ascii \in {AsciiOnly(name)}}} : TRUE
\* the typename of _get_indexed_dataset_fields:
\* slugify(f"{id}-{''.join(c for c in name if ord(c) < 128)}")
Typename(id, name) ==
    CHOOSE out \in {Slugify(id \o "-" \o ascii) : ascii \in {AsciiOnly(name)}} : TRUE

Range(seq) == {seq[i] : i \in 1..Len(seq)}
SeqMin(seq) == CHOOSE x \in Range(seq) : \A y \in Range(seq) : x <= y
SeqMax(seq) == CHOOSE x \in Range(seq) : \A y \in Range(seq) : x >= y

\* geonode.services.utils.decimal_encode: the coordinates as floats, one per
\* input coordinate
DecimalEncode(bbox) == [i \in 1..Len(bbox) |-> bbox[i]]

\* SosServiceHandler._get_keywords_for_resource
SosKeywordsForResource(offering) ==
    offering.observed_properties \cup offering.procedures
    \cup offering.features_of_interest

\* the bounding-box test of _get_indexed_dataset_fields / __get_bbox:
\* len(bbox) < 4
BBoxInvalidBelow2(bbox) == Len(bbox) < 2
BBoxInvalid(bbox) == Len(bbox) < 4

\* SosServiceHandler._get_indexed_dataset_fields
SosIndexedDatasetFields(offering) ==
    LET bbox == offering.bbox
    IN  IF BBoxInvalid(bbox) THEN Raise("InvalidBBox", <<>>)
        ELSE IF Len(bbox) < 4 THEN Raise("IndexError", <<>>)
        ELSE Return(Some(
            [name |-> offering.id,
             store |-> HandlerName("SOS"),
             workspace |-> "remoteWorkspace",
             typename |-> Typename(offering.id, offering.name),
             title |-> offering.name,
             abstract |-> offering.description,
             bbox_xy |-> <<bbox[1], bbox[3], bbox[2], bbox[4]>>,
             srid |-> IF offering.bbox_srs /= None THEN offering.bbox_srs[1]
                      ELSE "EPSG:4326",
             keywords |-> Keywords100(SosKeywordsForResource(offering))]),
            <<>>)

\* StaServiceHandler._get_keywords_for_resource: the four name listings, in
\* the order they are fetched
StaKeywordsForResource(rem, id) ==
    LET o == GetName(GetElements(rem, NamesUrl(OBSERVED_PROPERTIES, id)))
        f == GetName(GetElements(rem, FeatureNamesUrl(id)))
        s == GetName(GetElements(rem, NamesUrl(SENSORS, id)))
        t == GetName(GetElements(rem, NamesUrl(THINGS, id)))
    IN  IF o.kind = "raise" THEN o
        ELSE IF f.kind = "raise" THEN Raise(f.err, o.gets \o f.gets)
        ELSE IF s.kind = "raise" THEN Raise(s.err, o.gets \o f.gets \o s.gets)
        ELSE IF t.kind = "raise" THEN Raise(t.err, o.gets \o f.gets \o s.gets \o t.gets)
        ELSE Return(Some(Range(o.val[1]) \cup Range(f.val[1])
                         \cup Range(s.val[1]) \cup Range(t.val[1])),
                    o.gets \o f.gets \o s.gets \o t.gets)

\* StaServiceHandler.__get_bbox
StaGetBBox(rem, dataset_meta) ==
    IF "observedArea" \notin DOMAIN dataset_meta THEN Raise("KeyError", <<>>)
    ELSE IF dataset_meta["observedArea"] /= None
    THEN LET bbox == DecimalEncode(dataset_meta["observedArea"][1])
         IN  IF BBoxInvalid(bbox) THEN Raise("InvalidBBox", <<>>)
             ELSE Return(Some(bbox), <<>>)
    ELSE IF IOT_ID \notin DOMAIN dataset_meta THEN Raise("KeyError", <<>>)
    ELSE LET r == GetFeaturesForDatastream(rem, dataset_meta[IOT_ID])
         IN  IF r.kind = "raise" THEN r
             ELSE IF r.val = None THEN Raise("TypeError", r.gets)
             ELSE IF \E i \in 1..Len(r.val[1]) : "feature" \notin DOMAIN r.val[1][i]
             THEN Raise("KeyError", r.gets)
             ELSE IF r.val[1] = <<>> THEN Raise("ValueError", r.gets)
             ELSE LET x_list == [i \in 1..Len(r.val[1]) |->
                                     r.val[1][i]["feature"].coordinates[1]]
                      y_list == [i \in 1..Len(r.val[1]) |->
                                     r.val[1][i]["feature"].coordinates[2]]
                      bbox == <<SeqMin(x_list), SeqMax(x_list),
                                SeqMin(y_list), SeqMax(y_list)>>
                  IN  IF BBoxInvalid(bbox) THEN Raise("InvalidBBox", r.gets)
                      ELSE Return(Some(bbox), r.gets)

\* StaServiceHandler._get_indexed_dataset_fields: the typename is computed
\* from the id and the name before the description is read
StaIndexedDatasetFields(rem, dataset_meta) ==
    LET b == StaGetBBox(rem, dataset_meta)
    IN  IF b.kind = "raise" THEN b
        ELSE IF {IOT_ID, NAME} \ DOMAIN dataset_meta /= {}
        THEN Raise("KeyError", b.gets)
        ELSE IF dataset_meta[NAME] = Null THEN Raise("TypeError", b.gets)
        ELSE IF DESCRIPTION \notin DOMAIN dataset_meta THEN Raise("KeyError", b.gets)
        ELSE LET bbox == b.val[1]
                 k == StaKeywordsForResource(rem, dataset_meta[IOT_ID])
             IN  IF Len(bbox) < 4 THEN Raise("IndexError", b.gets)
                 ELSE IF k.kind = "raise" THEN Raise(k.err, b.gets \o k.gets)
                 ELSE Return(Some(
                     [name |-> dataset_meta[NAME],
                      store |-> HandlerName("STA"),
                      workspace |-> "remoteWorkspace",
                      typename |-> Typename(dataset_meta[IOT_ID], dataset_meta[NAME]),
                      title |-> dataset_meta[NAME],
                      abstract |-> dataset_meta[DESCRIPTION],
                      bbox_xy |-> <<bbox[1], bbox[3], bbox[2], bbox[4]>>,
                      srid |-> IF Len(bbox) > 4 THEN bbox[5] ELSE "EPSG:4326",
                      keywords |-> Keywords100(k.val[1])]),
                     b.gets \o k.gets)

(***************************************************************************)
(* The catalog: Dataset and Link rows                                      *)
(***************************************************************************)
\* existance_test_qs.exists() of harvest_resource
ExistsNever(ds, name, store, workspace) == FALSE
ExistsByTitle(ds, name, store, workspace) ==
    \E d \in ds : d.title = name /\ d.store = store /\ d.workspace = workspace
Exists(ds, name, store, workspace) ==
    \E d \in ds : d.name = name /\ d.store = store /\ d.workspace = workspace

\* the moderation defaults of harvest_resource
ApprovedUnlessPublishing(s) == ~s.RESOURCE_PUBLISHING
Approved(s) == ~(s.RESOURCE_PUBLISHING \/ s.ADMIN_MODERATE_UPLOADS)

\* _create_dataset: the Dataset row resource_manager.create stores; the
\* keywords are popped from the fields and are not part of it
NewDataset(service, resource_fields, s, pk) ==
    [pk |-> pk,
     name |-> resource_fields.name,
     store |-> resource_fields.store,
     workspace |-> resource_fields.workspace,
     typename |-> resource_fields.typename,
     title |-> resource_fields.title,
     abstract |-> resource_fields.abstract,
     bbox_xy |-> resource_fields.bbox_xy,
     srid |-> resource_fields.srid,
     keywords |-> {},
     is_approved |-> Approved(s),
     is_published |-> Approved(s),
     remote_typename |-> service.name,
     sourcetype |-> "REMOTE",
     ows_url |-> IF service.method = "INDEXED" THEN service.service_url ELSE Null]

DatasetByPk(ds, pk) == CHOOSE d \in ds : d.pk = pk

\* resource_manager.update(uuid, instance, keywords=keywords) of
\* _create_dataset
WithKeywords(ds, pk, keywords) ==
    {IF d.pk = pk THEN [d EXCEPT !.keywords = keywords] ELSE d : d \in ds}

\* Link.objects.filter(resource, name, link_type)
LinksOf(ls, resource, name, link_type) ==
    {l \in ls : l.resource = resource /\ l.name = name /\ l.link_type = link_type}

\* Link.objects.update_or_create(resource, name, link_type, defaults)
CreateAlways(ls, resource, name, link_type, url) ==
    ls \cup {[pk |-> Cardinality(ls) + 1, resource |-> resource, name |-> name,
              link_type |-> link_type, url |-> url,
              extension |-> "html", mime |-> "text/html"]}
UpdateOrCreate(ls, resource, name, link_type, url) ==
    LET found == LinksOf(ls, resource, name, link_type)
        row(pk) == [pk |-> pk, resource |-> resource, name |-> name,
                    link_type |-> link_type, url |-> url,
                    extension |-> "html", mime |-> "text/html"]
    IN  IF found = {} THEN ls \cup {row(Cardinality(ls) + 1)}
        ELSE (ls \ found) \cup {row(l.pk) : l \in found}

\* the loop of create_cascaded_store over the GetCapabilities methods, which
\* has no break: the last GET binding with a url, or None
LastGetUrl(service) ==
    IF "GetCapabilities" \notin DOMAIN service.operations THEN None
    ELSE LET methods == service.operations["GetCapabilities"].methods
             hits == {i \in 1..Len(methods) :
                          Upper(methods[i].type) = "GET" /\ methods[i].url /= ""}
         IN  IF hits = {} THEN None
             ELSE Some(methods[CHOOSE i \in hits : \A j \in hits : i >= j].url)

\* the same loop without its test of the method type
FirstMethodUrl(service) ==
    IF "GetCapabilities" \notin DOMAIN service.operations THEN None
    ELSE LET methods == service.operations["GetCapabilities"].methods
             hits == {i \in 1..Len(methods) : methods[i].url /= ""}
         IN  IF hits = {} THEN None
             ELSE Some(methods[CHOOSE i \in hits : \A j \in hits : i <= j].url)

\* the loop of SosServiceHandler._create_dataset_service_link over the
\* GetCapabilities methods: the first GET binding with a url, or None
FirstGetUrl(service) ==
    IF "GetCapabilities" \notin DOMAIN service.operations THEN None
    ELSE LET methods == service.operations["GetCapabilities"].methods
             hits == {i \in 1..Len(methods) :
                          Upper(methods[i].type) = "GET" /\ methods[i].url /= ""}
         IN  IF hits = {} THEN None
             ELSE Some(methods[CHOOSE i \in hits : \A j \in hits : i <= j].url)

\* the access url written by _create_dataset_service_link
LinkUrl(family, service, dataset) ==
    IF family = "SOS" /\ FirstGetUrl(service) /= None
    THEN FirstGetUrl(service)[1]
    ELSE dataset.ows_url

\* Dataset.objects.filter(id=...).update(ows_url=...) of the SOS handler
WithOwsUrl(ds, pk, url) ==
    {IF d.pk = pk THEN [d EXCEPT !.ows_url = url] ELSE d : d \in ds}

LinkName(family, dataset) ==
    IF family = "SOS" THEN "OGC SOS: " \o dataset.store \o " Service"
    ELSE "OGC STA: " \o dataset.store \o " Service"
LinkType(family) == IF family = "SOS" THEN "OGC:SOS" ELSE "OGC:STA"

(***************************************************************************)
(* The GeoServer catalog of the cascaded stores                            *)
(***************************************************************************)
\* the names of the SOS handlers that share the catalog
StoreNames == {"httpsos", "httpsos2", "httpsos3"}
\* the workspace of base.get_geoserver_cascading_workspace
CascadingWorkspace == "cascaded"
\* the catalog before any store is provisioned: stores are the stores it
\* holds, creations counts the create requests per store name, and calls
\* counts the handler calls made on it
NoStores == [stores |-> {}, creations |-> [n \in StoreNames |-> 0], calls |-> 0]

\* cat.get_store(name, workspace=workspace): the store, or None
CatGetStore(cat, name, workspace) ==
    LET found == {st \in cat.stores : st.name = name /\ st.workspace = workspace}
    IN  IF found = {} THEN None ELSE Some(CHOOSE st \in found : TRUE)

\* cat.create_sosstore(name, workspace, user, password): the catalog with
\* the new store, whose capabilities url is not set yet
CatCreateSosStore(cat, name, workspace) ==
    [cat EXCEPT !.stores =
                    {st \in @ : ~(st.name = name /\ st.workspace = workspace)}
                    \cup {[name |-> name, workspace |-> workspace,
                           capabilitiesURL |-> None]},
                !.creations[name] = @ + 1]

\* cat.save(store): the store of that name and workspace is replaced
CatSave(cat, store) ==
    [cat EXCEPT !.stores =
        {st \in @ : ~(st.name = store.name /\ st.workspace = store.workspace)}
        \cup {store}]

\* the test of SosServiceHandler._get_store on the store it looked up: the
\* store is created
CreatesStoreUnchecked(store, create) == create
CreatesStore(store, create) == store = None /\ create

\* the url create_cascaded_store binds the store to
CapabilitiesUrl(service) ==
    IF LastGetUrl(service) /= None THEN LastGetUrl(service)[1] ELSE service.service_url

(***************************************************************************)
(* harvest_resource, one action per stage                                  *)
(***************************************************************************)
Procs == 1..NumProcs
\* the settings of a deployment that sets none of them
DefaultSettings ==
    [RESOURCE_PUBLISHING |-> FALSE, ADMIN_MODERATE_UPLOADS |-> FALSE,
     OGC_SERVER |-> EmptyObj]
Stages == <<"FETCHING", "NORMALIZING", "CHECKING_DUPLICATE", "CREATING", "LINKING", "DONE">>
Active(p) == pc[p] \in {"FETCHING", "NORMALIZING", "CHECKING_DUPLICATE", "CREATING", "LINKING"}
NoCall == [family |-> "SOS", rid |-> "", service |-> Service("SOS")]

HarvestInit ==
    /\ settings \in [RESOURCE_PUBLISHING : BOOLEAN, ADMIN_MODERATE_UPLOADS : BOOLEAN,
                     OGC_SERVER : OgcServers]
    /\ datasets = {}
    /\ links = {}
    /\ pc = [p \in Procs |-> "idle"]
    /\ call = [p \in Procs |-> NoCall]
    /\ meta = [p \in Procs |-> None]
    /\ fields = [p \in Procs |-> None]
    /\ created = [p \in Procs |-> 0]
    /\ step = [p \in Procs |-> 0]
    /\ results = <<>>
    /\ history = <<>>
    /\ geoserver = NoStores

\* the call returns or raises: its locals are gone and the caller learns the
\* outcome
Finish(p, state, outcome) ==
    /\ pc' = [pc EXCEPT ![p] = state]
    /\ call' = [call EXCEPT ![p] = NoCall]
    /\ meta' = [meta EXCEPT ![p] = None]
    /\ fields' = [fields EXCEPT ![p] = None]
    /\ created' = [created EXCEPT ![p] = 0]
    /\ step' = [step EXCEPT ![p] = 0]
    /\ results' = Append(results, [family |-> call[p].family, rid |-> call[p].rid,
                                   outcome |-> outcome, stage |-> pc[p],
                                   fields |-> fields[p]])

\* the call raises out of its stage
Fail(p, error) == Finish(p, "FAILED", error)

\* the statement order of harvest_resource: the stage that follows a stage
NextStageSkippingCheck(stage) ==
    CASE stage = "FETCHING" -> "NORMALIZING"
      [] stage = "NORMALIZING" -> "CREATING"
      [] stage = "CHECKING_DUPLICATE" -> "CREATING"
      [] stage = "CREATING" -> "LINKING"
      [] stage = "LINKING" -> "DONE"
NextStage(stage) ==
    CASE stage = "FETCHING" -> "NORMALIZING"
      [] stage = "NORMALIZING" -> "CHECKING_DUPLICATE"
      [] stage = "CHECKING_DUPLICATE" -> "CREATING"
      [] stage = "CREATING" -> "LINKING"
      [] stage = "LINKING" -> "DONE"

\* the call moves on to its next stage
Advance(p) ==
    /\ pc' = [pc EXCEPT ![p] = NextStage(pc[p])]
    /\ UNCHANGED <<call, results>>

\* a caller invokes harvest_resource(resource_id, geonode_service) with a
\* resource id of rids, as one of at most calls calls
StartUpTo(p, rids, calls) ==
    /\ ~Active(p)
    /\ Len(results) + Cardinality({q \in Procs : Active(q)}) < calls
    /\ \E family \in Families, rid \in rids :
           call' = [call EXCEPT ![p] = [family |-> family, rid |-> rid,
                                        service |-> Service(family)]]
    /\ pc' = [pc EXCEPT ![p] = "FETCHING"]
    /\ UNCHANGED <<settings, datasets, links, meta, fields, created, step, results>>
    /\ UNCHANGED <<listVars, arg, history, geoserver>>

Start(p, rids) == StartUpTo(p, rids, MaxCalls)

\* the same, by the scheduler that runs one harvest at a time
StartAlone(p) ==
    /\ p = 1
    /\ \A q \in Procs : ~Active(q)
    /\ Start(p, RIds)

\* the same, by callers that do not wait for each other
StartAny(p) ==
    /\ p \in Procs
    /\ Start(p, ConcRIds)

\* the same, by the callers of a catalog whose datasets are linked again
StartLinked(p) ==
    /\ p \in Procs
    /\ StartUpTo(p, ConcRIds, MaxLinkedCalls)

\* get_resource(resource_id)
GetResource(family, rem, rid) ==
    IF family = "SOS"
    THEN IF rid \in DOMAIN SosContents
         THEN Return(Some(SosContents[rid]), <<>>)
         ELSE Raise("KeyError", <<>>)
    ELSE GetByIdentifier(rem, DATASTREAMS, rid)

Fetching(p) ==
    /\ pc[p] = "FETCHING"
    /\ \E r \in {GetResource(call[p].family, Responses(remote), call[p].rid)} :
           IF r.kind = "raise"
           THEN Fail(p, r.err)
           ELSE /\ Advance(p)
                /\ meta' = [meta EXCEPT ![p] = r.val]
                /\ UNCHANGED <<fields, created, step>>
    /\ UNCHANGED <<settings, datasets, links>>
    /\ UNCHANGED <<listVars, arg, history, geoserver>>

\* _get_indexed_dataset_fields(dataset_meta)
IndexedDatasetFields(family, rem, m) ==
    IF m = None
    THEN (IF family = "SOS" THEN Raise("AttributeError", <<>>)
          ELSE Raise("TypeError", <<>>))
    ELSE IF family = "SOS" THEN SosIndexedDatasetFields(m[1])
    ELSE StaIndexedDatasetFields(rem, m[1])

Normalizing(p) ==
    /\ pc[p] = "NORMALIZING"
    /\ \E r \in {IndexedDatasetFields(call[p].family, Responses(remote), meta[p])} :
           IF r.kind = "raise"
           THEN Fail(p, r.err)
           ELSE /\ Advance(p)
                /\ fields' = [fields EXCEPT ![p] = r.val]
                /\ UNCHANGED <<meta, created, step>>
    /\ UNCHANGED <<settings, datasets, links>>
    /\ UNCHANGED <<listVars, arg, history, geoserver>>

\* the existence test on (name, store, workspace)
CheckingDuplicate(p) ==
    /\ pc[p] = "CHECKING_DUPLICATE"
    /\ IF Exists(datasets, fields[p][1].name, fields[p][1].store, fields[p][1].workspace)
       THEN Fail(p, "AlreadyHarvested")
       ELSE /\ Advance(p)
            /\ UNCHANGED <<meta, fields, created, step>>
    /\ UNCHANGED <<settings, datasets, links>>
    /\ UNCHANGED <<listVars, arg, history, geoserver>>

\* the call moves on within its stage: one more catalog call is made
Within(p) ==
    /\ step' = [step EXCEPT ![p] = @ + 1]
    /\ UNCHANGED <<pc, call, results, meta, fields>>

\* _create_dataset(geonode_service, **resource_fields), its first call:
\* resource_manager.create stores the row; the catalog may refuse it
Creating(p) ==
    /\ pc[p] = "CREATING" /\ step[p] = 0
    /\ \E stored \in BOOLEAN :
           IF stored
           THEN LET pk == Cardinality(datasets) + 1
                IN  /\ datasets' = datasets \cup
                           {NewDataset(call[p].service, fields[p][1], settings, pk)}
                    /\ created' = [created EXCEPT ![p] = pk]
                    /\ Within(p)
           ELSE /\ Fail(p, "CreateError")
                /\ UNCHANGED datasets
    /\ UNCHANGED <<settings, links>>
    /\ UNCHANGED <<listVars, arg, history, geoserver>>

\* _create_dataset, its second call: resource_manager.update writes the
\* keywords of the row; the catalog may refuse, and the row stays
UpdatingKeywords(p) ==
    /\ pc[p] = "CREATING" /\ step[p] = 1
    /\ \E stored \in BOOLEAN :
           IF stored
           THEN /\ datasets' = WithKeywords(datasets, created[p],
                                            DOMAIN fields[p][1].keywords)
                /\ Within(p)
                /\ UNCHANGED created
           ELSE /\ Fail(p, "CreateError")
                /\ UNCHANGED datasets
    /\ UNCHANGED <<settings, links>>
    /\ UNCHANGED <<listVars, arg, history, geoserver>>

\* _create_dataset, its third call: resource_manager.set_permissions; the
\* catalog may refuse, and the row stays with its keywords
SettingPermissions(p) ==
    /\ pc[p] = "CREATING" /\ step[p] = 2
    /\ \E granted \in BOOLEAN :
           IF granted
           THEN /\ Advance(p)
                /\ step' = [step EXCEPT ![p] = 0]
                /\ UNCHANGED <<meta, fields, created>>
           ELSE Fail(p, "CreateError")
    /\ UNCHANGED <<settings, datasets, links>>
    /\ UNCHANGED <<listVars, arg, history, geoserver>>

\* geonode_dataset of the caller: the object resource_manager.create
\* returned, which later changes of its row do not reach
GeonodeDataset(p) ==
    NewDataset(call[p].service, fields[p][1], settings, created[p])

\* the test of the loop of SosServiceHandler._create_dataset_service_link:
\* the handler has an access url to write on the row
UpdatesOwsUrl(family, service) == family = "SOS" /\ FirstGetUrl(service) /= None

\* _create_dataset_service_link(geonode_dataset), its first call:
\* Dataset.objects.filter(id=...).update(ows_url=...) of the SOS handler;
\* the catalog may refuse
UpdatingOwsUrl(p) ==
    /\ pc[p] = "LINKING" /\ step[p] = 0
    /\ UpdatesOwsUrl(call[p].family, call[p].service)
    /\ \E stored \in BOOLEAN :
           IF stored
           THEN /\ datasets' = WithOwsUrl(datasets, created[p],
                                          LinkUrl(call[p].family, call[p].service,
                                                  GeonodeDataset(p)))
                /\ Within(p)
                /\ UNCHANGED created
           ELSE /\ Fail(p, "LinkError")
                /\ UNCHANGED datasets
    /\ UNCHANGED <<settings, links>>
    /\ UNCHANGED <<listVars, arg, history, geoserver>>

\* _create_dataset_service_link, the count of the links of the dataset:
\* with fewer than two the link is written next, otherwise the call returns
CountingLinks(p) ==
    /\ pc[p] = "LINKING"
    /\ \/ step[p] = 1
       \/ step[p] = 0 /\ ~UpdatesOwsUrl(call[p].family, call[p].service)
    /\ LET family == call[p].family
           dataset == GeonodeDataset(p)
       IN  IF Cardinality(LinksOf(links, dataset.pk, LinkName(family, dataset),
                                  LinkType(family))) < 2
           THEN /\ step' = [step EXCEPT ![p] = 2]
                /\ UNCHANGED <<pc, call, results, meta, fields, created>>
           ELSE Finish(p, NextStage(pc[p]), "ok")
    /\ UNCHANGED <<settings, datasets, links>>
    /\ UNCHANGED <<listVars, arg, history, geoserver>>

\* _create_dataset_service_link, its last call: Link.objects.update_or_create
\* writes the link; the catalog may refuse
Linking(p) ==
    /\ pc[p] = "LINKING" /\ step[p] = 2
    /\ LET family == call[p].family
           dataset == GeonodeDataset(p)
           url == LinkUrl(family, call[p].service, dataset)
       IN  \E stored \in BOOLEAN :
               IF stored
               THEN /\ links' = UpdateOrCreate(links, dataset.pk,
                                               LinkName(family, dataset),
                                               LinkType(family), url)
                    /\ Finish(p, NextStage(pc[p]), "ok")
               ELSE /\ Fail(p, "LinkError")
                    /\ UNCHANGED links
    /\ UNCHANGED <<settings, datasets>>
    /\ UNCHANGED <<listVars, arg, history, geoserver>>

\* the service row after a re-harvest refreshed its operations
RefreshedService(family) ==
    IF family = "SOS"
    THEN [Service("SOS") EXCEPT !.operations =
              ("GetCapabilities" :>
                  [methods |-> <<[type |-> "GET", url |-> "http://sos/get2"]>>])]
    ELSE Service("STA")

\* the handler a dataset was harvested by
FamilyOf(dataset) == IF dataset.store = "httpsos" THEN "SOS" ELSE "STA"

\* _create_dataset_service_link run again, outside a harvest, for a dataset
\* of the catalog: arg holds its locals (the dataset as it was read, the
\* service row, the catalog calls made).  Its first call is
\* Dataset.objects.filter(id=...).update(ows_url=...) of the SOS handler;
\* the catalog may refuse, and the call ends
RelinkUpdatingOwsUrl ==
    /\ arg = None
    /\ \E dataset \in datasets :
         \E service \in {Service(FamilyOf(dataset)), RefreshedService(FamilyOf(dataset))} :
           /\ UpdatesOwsUrl(FamilyOf(dataset), service)
           /\ \E stored \in BOOLEAN :
                  IF stored
                  THEN /\ datasets' = WithOwsUrl(datasets, dataset.pk,
                                                 LinkUrl(FamilyOf(dataset), service, dataset))
                       /\ arg' = Some([dataset |-> dataset, service |-> service,
                                       step |-> 1])
                  ELSE UNCHANGED <<datasets, arg>>
    /\ UNCHANGED <<remote, datastreams, lastUpdate, now, lastOp, ret, history, geoserver>>
    /\ UNCHANGED <<settings, links, pc, call, meta, fields, created, step, results>>

\* the locals of a repeated link step that has counted n links of its
\* dataset: with fewer than two the link is written next, otherwise the
\* call returns
Counted(dataset, service, n) ==
    IF n < 2 THEN Some([dataset |-> dataset, service |-> service, step |-> 2]) ELSE None

\* the same call, the count of the links of the dataset: the call begins
\* here when the handler has no access url to write on the row
RelinkCountingLinks ==
    /\ \/ /\ arg /= None
          /\ arg[1].step = 1
          /\ arg' = Counted(arg[1].dataset, arg[1].service,
                            Cardinality(LinksOf(links, arg[1].dataset.pk,
                                LinkName(FamilyOf(arg[1].dataset), arg[1].dataset),
                                LinkType(FamilyOf(arg[1].dataset)))))
       \/ /\ arg = None
          /\ \E dataset \in datasets :
               \E service \in {Service(FamilyOf(dataset)),
                               RefreshedService(FamilyOf(dataset))} :
                 /\ ~UpdatesOwsUrl(FamilyOf(dataset), service)
                 /\ arg' = Counted(dataset, service,
                                   Cardinality(LinksOf(links, dataset.pk,
                                       LinkName(FamilyOf(dataset), dataset),
                                       LinkType(FamilyOf(dataset)))))
    /\ UNCHANGED <<remote, datastreams, lastUpdate, now, lastOp, ret, history, geoserver>>
    /\ UNCHANGED <<settings, datasets, links, pc, call, meta, fields, created, step, results>>

\* the same call, its last catalog call: Link.objects.update_or_create; the
\* catalog may refuse; either way the call ends
RelinkLinking ==
    /\ arg /= None
    /\ arg[1].step = 2
    /\ LET dataset == arg[1].dataset
           family == FamilyOf(dataset)
       IN  \E stored \in BOOLEAN :
               IF stored
               THEN links' = UpdateOrCreate(links, dataset.pk, LinkName(family, dataset),
                                            LinkType(family),
                                            LinkUrl(family, arg[1].service, dataset))
               ELSE UNCHANGED links
    /\ arg' = None
    /\ UNCHANGED <<remote, datastreams, lastUpdate, now, lastOp, ret, history, geoserver>>
    /\ UNCHANGED <<settings, datasets, pc, call, meta, fields, created, step, results>>

(***************************************************************************)
(* Calls on one STA client and on its handler                              *)
(***************************************************************************)
ListInit ==
    /\ remote \in ListRemotes
    /\ datastreams = None
    /\ lastUpdate = 0
    /\ now = 0
    /\ lastOp = "init"
    /\ ret = Return(None, <<>>)
    /\ arg = None
    /\ settings \in {[DefaultSettings EXCEPT !.OGC_SERVER = o] : o \in OgcServers}
    /\ HarvestInit

Tick ==
    /\ now < MaxTime
    /\ now' = now + 1
    /\ UNCHANGED <<remote, datastreams, lastUpdate, lastOp, ret>>
    /\ UNCHANGED <<harvestVars, arg, history, geoserver>>

getDatastreams ==
    /\ LET r == ClientGetDatastreams(
                    Responses(remote), [datastreams |-> datastreams, lastUpdate |-> lastUpdate], now)
       IN  /\ datastreams' = r.client.datastreams
           /\ lastUpdate' = r.client.lastUpdate
           /\ ret' = r.out
    /\ lastOp' = "getDatastreams"
    /\ UNCHANGED <<remote, now>>
    /\ UNCHANGED <<harvestVars, arg, history, geoserver>>

getDatastream ==
    /\ \E id \in ListIds : ret' = GetByIdentifier(Responses(remote), DATASTREAMS, id)
    /\ lastOp' = "getDatastream"
    /\ UNCHANGED <<remote, now, datastreams, lastUpdate>>
    /\ UNCHANGED <<harvestVars, arg, history, geoserver>>

hasDatastreams ==
    /\ ret' = HasDatastreams(Responses(remote))
    /\ lastOp' = "hasDatastreams"
    /\ UNCHANGED <<remote, now, datastreams, lastUpdate>>
    /\ UNCHANGED <<harvestVars, arg, history, geoserver>>

getFeaturesOfInterest ==
    /\ ret' = GetElements(Responses(remote), ClientUrl \o FEATURES_OF_INTEREST)
    /\ lastOp' = "getFeaturesOfInterest"
    /\ UNCHANGED <<remote, now, datastreams, lastUpdate>>
    /\ UNCHANGED <<harvestVars, arg, history, geoserver>>

getFeaturesForDatastream ==
    /\ \E id \in ListIds : ret' = GetFeaturesForDatastream(Responses(remote), id)
    /\ lastOp' = "getFeaturesForDatastream"
    /\ UNCHANGED <<remote, now, datastreams, lastUpdate>>
    /\ UNCHANGED <<harvestVars, arg, history, geoserver>>

getSensorNames ==
    /\ ret' = GetName(GetElements(Responses(remote), ClientUrl \o SENSORS \o "?" \o SELECT_ID_NAME))
    /\ lastOp' = "getSensorNames"
    /\ UNCHANGED <<remote, now, datastreams, lastUpdate>>
    /\ UNCHANGED <<harvestVars, arg, history, geoserver>>

get_resources ==
    /\ ret' = StaGetResources(Responses(remote), now)
    /\ lastOp' = "get_resources"
    /\ UNCHANGED <<remote, now, datastreams, lastUpdate>>
    /\ UNCHANGED <<harvestVars, arg, history, geoserver>>

ListNext ==
    \/ Tick
    \/ getDatastreams
    \/ getDatastream
    \/ hasDatastreams
    \/ getFeaturesOfInterest
    \/ getFeaturesForDatastream
    \/ getSensorNames
    \/ get_resources

SpecSta == ListInit /\ [][ListNext]_vars

(***************************************************************************)
(* Calls that provision the cascaded store of an SOS handler               *)
(***************************************************************************)
MaxStoreCalls == 3

\* arg holds, per caller, the locals of its call on the handler: the call
\* (op), the handler's name, create, the url to bind, the store it holds and
\* the requests to GeoServer it has made (step; 0 once the call has ended)
StoreInit ==
    /\ remote = TheHarvestRemote
    /\ datastreams = None
    /\ lastUpdate = 0
    /\ now = 0
    /\ lastOp = "init"
    /\ ret = Return(None, <<>>)
    /\ arg = [p \in Procs |-> None]
    /\ settings = DefaultSettings
    /\ HarvestInit

\* caller p has a call in progress
Provisioning(p) == arg[p] /= None /\ arg[p][1].step /= 0

\* the call of caller p returns or raises
StoreReturn(p, out) ==
    /\ arg' = [arg EXCEPT ![p] = Some([arg[p][1] EXCEPT !.step = 0])]
    /\ ret' = out
    /\ lastOp' = arg[p][1].op

\* the first request of a call: base.get_geoserver_cascading_workspace(create)
\* gives the workspace of the cascaded stores, or GeoServer refuses
RequestingWorkspace(p, locals) ==
    /\ geoserver.calls < MaxStoreCalls
    /\ \E answered \in BOOLEAN :
           IF answered
           THEN /\ arg' = [arg EXCEPT ![p] = Some([locals EXCEPT !.step = 1])]
                /\ UNCHANGED <<ret, lastOp>>
           ELSE /\ arg' = [arg EXCEPT ![p] = Some([locals EXCEPT !.step = 0])]
                /\ ret' = Raise("GeoServerError", <<>>)
                /\ lastOp' = locals.op
    /\ geoserver' = [geoserver EXCEPT !.calls = @ + 1]
    /\ UNCHANGED <<remote, now, datastreams, lastUpdate, history>>
    /\ UNCHANGED harvestVars

\* handler._get_store(create=create) on the handler named name begins
get_store(p) ==
    /\ ~Provisioning(p)
    /\ \E name \in StoreNames, create \in BOOLEAN :
           RequestingWorkspace(p, [op |-> "_get_store", name |-> name,
                                   create |-> create, url |-> None,
                                   store |-> None, step |-> 0])

\* handler.create_cascaded_store(service) on the handler named name begins:
\* it picks the url to bind and calls _get_store(create=True)
create_cascaded_store(p) ==
    /\ ~Provisioning(p)
    /\ \E name \in StoreNames, service \in {Service("SOS"), RefreshedService("SOS")} :
           RequestingWorkspace(p, [op |-> "create_cascaded_store", name |-> name,
                                   create |-> TRUE,
                                   url |-> Some(CapabilitiesUrl(service)),
                                   store |-> None, step |-> 0])

\* what follows _get_store in the call of caller p, which holds store:
\* _get_store returns it to its caller, create_cascaded_store goes on to bind
\* and save it
GotStore(p, store) ==
    IF arg[p][1].op = "_get_store"
    THEN StoreReturn(p, Return(store, <<>>))
    ELSE /\ arg' = [arg EXCEPT ![p] = Some([arg[p][1] EXCEPT !.store = store,
                                                            !.step = 3])]
         /\ UNCHANGED <<ret, lastOp>>

\* _get_store, its second request: cat.get_store(self.name, workspace), and
\* the test of its answer
LookingUpStore(p) ==
    /\ arg[p] /= None
    /\ arg[p][1].step = 1
    /\ \E answered \in BOOLEAN :
           IF ~answered THEN StoreReturn(p, Raise("GeoServerError", <<>>))
           ELSE \E store \in {CatGetStore(geoserver, arg[p][1].name, CascadingWorkspace)} :
                    IF CreatesStore(store, arg[p][1].create)
                    THEN /\ arg' = [arg EXCEPT ![p] = Some([arg[p][1] EXCEPT !.step = 2])]
                         /\ UNCHANGED <<ret, lastOp>>
                    ELSE GotStore(p, store)
    /\ UNCHANGED <<remote, now, datastreams, lastUpdate, history, geoserver>>
    /\ UNCHANGED harvestVars

\* _get_store, its third request: cat.create_sosstore; GeoServer may refuse
CreatingStore(p) ==
    /\ arg[p] /= None
    /\ arg[p][1].step = 2
    /\ \E stored \in BOOLEAN :
           IF stored
           THEN /\ geoserver' = CatCreateSosStore(geoserver, arg[p][1].name,
                                                  CascadingWorkspace)
                /\ GotStore(p, Some([name |-> arg[p][1].name,
                                     workspace |-> CascadingWorkspace,
                                     capabilitiesURL |-> None]))
           ELSE /\ StoreReturn(p, Raise("GeoServerError", <<>>))
                /\ UNCHANGED geoserver
    /\ UNCHANGED <<remote, now, datastreams, lastUpdate, history>>
    /\ UNCHANGED harvestVars

\* create_cascaded_store, its last request: the store is bound to the url
\* and saved with cat.save(store); GeoServer may refuse
SavingStore(p) ==
    /\ arg[p] /= None
    /\ arg[p][1].step = 3
    /\ \E store \in {[arg[p][1].store[1] EXCEPT !.capabilitiesURL = arg[p][1].url]} :
        \E stored \in BOOLEAN :
           IF stored
           THEN /\ geoserver' = CatSave(geoserver, store)
                /\ StoreReturn(p, Return(Some(store), <<>>))
           ELSE /\ StoreReturn(p, Raise("GeoServerError", <<>>))
                /\ UNCHANGED geoserver
    /\ UNCHANGED <<remote, now, datastreams, lastUpdate, history>>
    /\ UNCHANGED harvestVars

\* the same calls, by the one caller of handlers that are not shared
Unshared(p) == p = 1 /\ \A q \in Procs : ~Provisioning(q)
GetStoreAlone(p) ==
    /\ Unshared(p)
    /\ get_store(p)
CreateCascadedStoreAlone(p) ==
    /\ Unshared(p)
    /\ create_cascaded_store(p)

\* the calls are made one after the other
StoreNext ==
    \E p \in Procs :
        \/ GetStoreAlone(p)
        \/ CreateCascadedStoreAlone(p)
        \/ LookingUpStore(p)
        \/ CreatingStore(p)
        \/ SavingStore(p)

SpecStore == StoreInit /\ [][StoreNext]_vars

\* the calls of several callers overlap
StoreNextConc ==
    \E p \in Procs :
        \/ get_store(p)
        \/ create_cascaded_store(p)
        \/ LookingUpStore(p)
        \/ CreatingStore(p)
        \/ SavingStore(p)

SpecStoreConc == StoreInit /\ [][StoreNextConc]_vars

(***************************************************************************)
(* get_resources called again and again on one STA handler                 *)
(***************************************************************************)
MaxHandlerCalls == 2

\* StaServiceHandler.get_resources at time now; the call is recorded with
\* its time, the GETs it issued and whether it returned a listing
handler_get_resources ==
    /\ Len(history) < MaxHandlerCalls
    /\ LET r == StaGetResources(Responses(remote), now)
       IN  /\ ret' = r
           /\ history' = Append(history, [op |-> "get_resources", at |-> now,
                                          gets |-> r.gets, listed |-> r.val /= None])
    /\ lastOp' = "get_resources"
    /\ UNCHANGED <<remote, now, datastreams, lastUpdate, arg, geoserver>>
    /\ UNCHANGED harvestVars

\* time passes between the calls
HandlerTick ==
    /\ now < MaxTime
    /\ now' = now + 1
    /\ UNCHANGED <<remote, datastreams, lastUpdate, lastOp, ret>>
    /\ UNCHANGED <<harvestVars, arg, history, geoserver>>

HandlerNext ==
    \/ HandlerTick
    \/ handler_get_resources

SpecHandler == ListInit /\ [][HandlerNext]_vars

(***************************************************************************)
(* The keyword listings of the two handlers                                *)
(***************************************************************************)
\* StaServiceHandler.get_keywords: the four name listings, in the order
\* they are fetched
StaGetKeywords(rem) ==
    LET o == GetName(GetElements(rem, AllNamesUrl(OBSERVED_PROPERTIES)))
        f == GetName(GetElements(rem, AllNamesUrl(FEATURES_OF_INTEREST)))
        s == GetName(GetElements(rem, AllNamesUrl(SENSORS)))
        t == GetName(GetElements(rem, AllNamesUrl(THINGS)))
    IN  IF o.kind = "raise" THEN o
        ELSE IF f.kind = "raise" THEN Raise(f.err, o.gets \o f.gets)
        ELSE IF s.kind = "raise" THEN Raise(s.err, o.gets \o f.gets \o s.gets)
        ELSE IF t.kind = "raise" THEN Raise(t.err, o.gets \o f.gets \o s.gets \o t.gets)
        ELSE Return(Some(Range(o.val[1]) \cup Range(f.val[1])
                         \cup Range(s.val[1]) \cup Range(t.val[1])),
                    o.gets \o f.gets \o s.gets \o t.gets)

\* SosServiceHandler.get_keywords on a parsed service: the identification
\* keywords (a list) when there are any, else the union over the offerings
SosGetKeywords(parsed_service) ==
    LET keywords == parsed_service.identification.keywords
    IN  IF keywords /= None /\ Len(keywords[1]) > 0
        THEN Return(Some(keywords[1]), <<>>)
        ELSE Return(Some(UNION {SosKeywordsForResource(parsed_service.contents[id]) :
                                   id \in DOMAIN parsed_service.contents}), <<>>)

\* the parsed SOS services the keyword calls are made on
BareOffering(id) ==
    [Offering(id, "bare", <<1, 2, 3, 4>>) EXCEPT
        !.observed_properties = {}, !.procedures = {}, !.features_of_interest = {}]
SosParsedServices ==
    {[identification |-> [keywords |-> k], contents |-> c] :
        k \in {None, Some(<<>>), Some(<<"weather">>)},
        c \in {EmptyObj, ("e" :> BareOffering("e")), SosContents}}

KeywordInit ==
    /\ remote \in KeywordRemotes
    /\ arg \in {Some(svc) : svc \in SosParsedServices}
    /\ datastreams = None
    /\ lastUpdate = 0
    /\ now = 0
    /\ lastOp = "init"
    /\ ret = Return(None, <<>>)
    /\ settings = DefaultSettings
    /\ HarvestInit

sta_get_keywords ==
    /\ lastOp = "init"
    /\ ret' = StaGetKeywords(Responses(remote))
    /\ lastOp' = "sta.get_keywords"
    /\ UNCHANGED <<remote, now, datastreams, lastUpdate>>
    /\ UNCHANGED <<harvestVars, arg, history, geoserver>>

sta_get_keywords_for_resource ==
    /\ lastOp = "init"
    /\ \E id \in ListIds : ret' = StaKeywordsForResource(Responses(remote), id)
    /\ lastOp' = "sta._get_keywords_for_resource"
    /\ UNCHANGED <<remote, now, datastreams, lastUpdate>>
    /\ UNCHANGED <<harvestVars, arg, history, geoserver>>

sos_get_keywords ==
    /\ lastOp = "init"
    /\ ret' = SosGetKeywords(arg[1])
    /\ lastOp' = "sos.get_keywords"
    /\ UNCHANGED <<remote, now, datastreams, lastUpdate>>
    /\ UNCHANGED <<harvestVars, arg, history, geoserver>>

sos_get_keywords_for_resource ==
    /\ lastOp = "init"
    /\ \E id \in DOMAIN arg[1].contents :
           /\ ret' = Return(Some(SosKeywordsForResource(arg[1].contents[id])), <<>>)
           /\ call' = [call EXCEPT ![1] = [family |-> "SOS", rid |-> id,
                                           service |-> Service("SOS")]]
    /\ lastOp' = "sos._get_keywords_for_resource"
    /\ UNCHANGED <<remote, now, datastreams, lastUpdate, arg, history, geoserver>>
    /\ UNCHANGED <<datasets, links, settings, pc, meta, fields, created, step, results>>

KeywordNext ==
    \/ sta_get_keywords
    \/ sta_get_keywords_for_resource
    \/ sos_get_keywords
    \/ sos_get_keywords_for_resource

SpecKeywords == KeywordInit /\ [][KeywordNext]_vars

(***************************************************************************)
(* Normalization of one STA datastream fetched from the remote             *)
(***************************************************************************)
FieldsInit ==
    /\ remote \in FieldsRemotes
    /\ arg = None
    /\ datastreams = None
    /\ lastUpdate = 0
    /\ now = 0
    /\ lastOp = "init"
    /\ ret = Return(None, <<>>)
    /\ settings = DefaultSettings
    /\ HarvestInit

\* two calls made one after the other: the second is reached only when the
\* first returned, and the requests of both are kept in order
Sequenced(m, r) ==
    IF m.kind = "raise" THEN m
    ELSE IF r.kind = "raise" THEN Raise(r.err, m.gets \o r.gets)
    ELSE Return(r.val, m.gets \o r.gets)

\* get_resource('e') followed by _get_indexed_dataset_fields on its result
sta_get_indexed_dataset_fields ==
    /\ lastOp = "init"
    /\ ret' = Sequenced(GetResource("STA", Responses(remote), "e"),
                        IndexedDatasetFields("STA", Responses(remote),
                            GetResource("STA", Responses(remote), "e").val))
    /\ lastOp' = "_get_indexed_dataset_fields"
    /\ UNCHANGED <<remote, now, datastreams, lastUpdate>>
    /\ UNCHANGED <<harvestVars, arg, history, geoserver>>

\* getSensorNamesForDatastream('e')
getSensorNamesForDatastream ==
    /\ lastOp = "init"
    /\ ret' = GetName(GetElements(Responses(remote), NamesUrl(SENSORS, "e")))
    /\ lastOp' = "getSensorNamesForDatastream"
    /\ UNCHANGED <<remote, now, datastreams, lastUpdate>>
    /\ UNCHANGED <<harvestVars, arg, history, geoserver>>

FieldsNext ==
    \/ sta_get_indexed_dataset_fields
    \/ getSensorNamesForDatastream

SpecFields == FieldsInit /\ [][FieldsNext]_vars

(***************************************************************************)
(* The link step on the Service rows the handlers can save                 *)
(***************************************************************************)
MaxMethods == 2
\* the method bindings create_geonode_service copies from the capabilities
Bindings == [type : {"Get", "GET", "Post"}, url : {"", "http://sos/get", "http://sos/get2"}]
RECURSIVE MethodLists(_)
MethodLists(n) ==
    IF n = 0 THEN {<<>>}
    ELSE LET shorter == MethodLists(n - 1)
         IN  shorter \cup {Append(l, b) : l \in {k \in shorter : Len(k) = n - 1},
                                          b \in Bindings}
\* the Service rows of create_geonode_service: the SOS handler copies the
\* operations of the capabilities, the STA handler sets none
Services(family) ==
    IF family = "SOS"
    THEN {[Service("SOS") EXCEPT !.operations = ops] :
             ops \in {EmptyObj} \cup {("GetCapabilities" :> [methods |-> ms]) :
                                         ms \in MethodLists(MaxMethods)}}
    ELSE {Service("STA")}

\* resource "a" has been fetched, normalized and stored by harvest_resource,
\* which is about to link it
LinkInit ==
    /\ remote = TheHarvestRemote
    /\ settings = DefaultSettings
    /\ \E family \in Families :
        \E resource_fields \in
               {IndexedDatasetFields(family, HarvestRemote,
                                     GetResource(family, HarvestRemote, "a").val).val[1]} :
          /\ arg \in {Some(service) : service \in Services(family)}
          /\ call = [p \in Procs |-> IF p = 1 THEN [family |-> family, rid |-> "a",
                                                    service |-> arg[1]]
                                     ELSE NoCall]
          /\ fields = [p \in Procs |-> IF p = 1 THEN Some(resource_fields) ELSE None]
          /\ datasets = WithKeywords({NewDataset(arg[1], resource_fields, settings, 1)},
                                     1, DOMAIN resource_fields.keywords)
    /\ links = {}
    /\ pc = [p \in Procs |-> IF p = 1 THEN "LINKING" ELSE "idle"]
    /\ meta = [p \in Procs |-> None]
    /\ created = [p \in Procs |-> IF p = 1 THEN 1 ELSE 0]
    /\ step = [p \in Procs |-> 0]
    /\ results = <<>>
    /\ datastreams = None
    /\ lastUpdate = 0
    /\ now = 0
    /\ lastOp = "init"
    /\ ret = Return(None, <<>>)
    /\ history = <<>>
    /\ geoserver = NoStores

\* _create_dataset_service_link(geonode_service, geonode_dataset), call by
\* call
LinkNext ==
    \E p \in Procs :
        \/ UpdatingOwsUrl(p)
        \/ CountingLinks(p)
        \/ Linking(p)

SpecLink == LinkInit /\ [][LinkNext]_vars

(***************************************************************************)
(* The harvest workflow against the fixed remotes                          *)
(***************************************************************************)
Init ==
    /\ remote = TheHarvestRemote
    /\ datastreams = None
    /\ lastUpdate = 0
    /\ now = 0
    /\ lastOp = "init"
    /\ ret = Return(None, <<>>)
    /\ arg = None
    /\ HarvestInit
    /\ settings.OGC_SERVER = EmptyObj

\* harvests run one at a time
Next ==
    \E p \in Procs :
        \/ StartAlone(p)
        \/ Fetching(p)
        \/ Normalizing(p)
        \/ CheckingDuplicate(p)
        \/ Creating(p)
        \/ UpdatingKeywords(p)
        \/ SettingPermissions(p)
        \/ UpdatingOwsUrl(p)
        \/ CountingLinks(p)
        \/ Linking(p)

Spec == Init /\ [][Next]_vars

\* harvests of several callers overlap
NextConc ==
    \E p \in Procs :
        \/ StartAny(p)
        \/ Fetching(p)
        \/ Normalizing(p)
        \/ CheckingDuplicate(p)
        \/ Creating(p)
        \/ UpdatingKeywords(p)
        \/ SettingPermissions(p)
        \/ UpdatingOwsUrl(p)
        \/ CountingLinks(p)
        \/ Linking(p)

InitConc ==
    /\ Init
    /\ settings = DefaultSettings

SpecConc == InitConc /\ [][NextConc]_vars

\* harvests, and the link step repeated on the datasets they created
NextRelink ==
    \/ \E p \in Procs :
        \/ StartLinked(p)
        \/ Fetching(p)
        \/ Normalizing(p)
        \/ CheckingDuplicate(p)
        \/ Creating(p)
        \/ UpdatingKeywords(p)
        \/ SettingPermissions(p)
        \/ UpdatingOwsUrl(p)
        \/ CountingLinks(p)
        \/ Linking(p)
    \/ RelinkUpdatingOwsUrl
    \/ RelinkCountingLinks
    \/ RelinkLinking

SpecRelink == InitConc /\ [][NextRelink]_vars

(***************************************************************************)
(* URL strings.  A string is the sequence of its symbols: a URL is         *)
(*   <<scheme, "://", netloc>>, the symbols of the path and, when it has   *)
(*   a query, "?" and the symbols of the query (keys, "=", "&" and the     *)
(*   symbols of the values).  "%26" is the percent-encoding of "&",        *)
(*   "%2526" that of "%26" and "%252526" that of "%2526".  The URLs of     *)
(*   the model have no params and no fragment.                             *)
(***************************************************************************)
MaxParams == 2

Schemes == {"http", "https", "HTTPS", "ftp"}
Keys == {"version", "service", "request", "a", "b"}
RawValues == {<<>>, <<"1.0.0">>, <<"2.0.0">>, <<"x", "%26", "y">>, <<"x", "%2526", "y">>}
Paths == {<<"/svc">>, <<"/svc", "/">>}

\* the queries of at most n parameters key=value
RECURSIVE Queries(_)
Queries(n) ==
    IF n = 0 THEN {<<>>}
    ELSE LET shorter == Queries(n - 1)
         IN  shorter \cup
             {(IF q = <<>> THEN <<>> ELSE q \o <<"&">>) \o <<k, "=">> \o v :
                  q \in shorter, k \in Keys, v \in RawValues}

MkUrl(scheme, path, query) ==
    <<scheme, "://", "host">> \o path
    \o (IF query = <<>> THEN <<>> ELSE <<"?">> \o query)

\* the position of the first sym in seq, or 0
IndexOf(seq, sym) ==
    IF \E i \in 1..Len(seq) : seq[i] = sym
    THEN CHOOSE i \in 1..Len(seq) : seq[i] = sym /\ \A j \in 1..(i - 1) : seq[j] /= sym
    ELSE 0

\* str.split(sep): the segments of seq between the occurrences of sep
RECURSIVE Split(_, _)
Split(seq, sep) ==
    LET i == IndexOf(seq, sep)
    IN  IF i = 0 THEN <<seq>>
        ELSE <<SubSeq(seq, 1, i - 1)>> \o Split(SubSeq(seq, i + 1, Len(seq)), sep)

\* urllib.parse.unquote, one pass of percent-decoding
UnquoteSym(sym) ==
    CASE sym = "%26" -> "&"
      [] sym = "%2526" -> "%26"
      [] sym = "%252526" -> "%2526"
      [] OTHER -> sym
Unquote(str) == [i \in 1..Len(str) |-> UnquoteSym(str[i])]

\* urllib.parse.quote_plus, as urlencode applies it to keys and values
QuotePlusSym(sym) ==
    CASE sym = "&" -> "%26"
      [] sym = "%26" -> "%2526"
      [] sym = "%2526" -> "%252526"
      [] OTHER -> sym
QuotePlus(str) == [i \in 1..Len(str) |-> QuotePlusSym(str[i])]

\* urllib.parse.quote(str, safe='') on the symbols of a URL
QuoteSym(sym) ==
    CASE sym = "://" -> "%3A%2F%2F"
      [] sym = "/svc" -> "%2Fsvc"
      [] sym = "/" -> "%2F"
      [] sym = "/proxy" -> "%2Fproxy"
      [] sym = "?" -> "%3F"
      [] sym = "=" -> "%3D"
      [] sym = "&" -> "%26"
      [] sym = "%26" -> "%2526"
      [] sym = "%2526" -> "%252526"
      [] OTHER -> sym
Quote(str) == [i \in 1..Len(str) |-> QuoteSym(str[i])]

\* str.lower() on the schemes of the model
Lower(sym) == IF sym = "HTTPS" THEN "https" ELSE sym

\* urllib.parse.urlparse
UrlParse(url) ==
    LET q == IndexOf(url, "?")
        stop == IF q = 0 THEN Len(url) ELSE q - 1
    IN  [scheme |-> Lower(url[1]),
         netloc |-> url[3],
         path |-> SubSeq(url, 4, stop),
         params |-> <<>>,
         query |-> IF q = 0 THEN <<>> ELSE SubSeq(url, q + 1, Len(url)),
         fragment |-> <<>>]

\* urllib.parse.urlunparse / ParseResult.geturl
UrlUnparse(p) ==
    <<p.scheme, "://", p.netloc>> \o p.path
    \o (IF p.query = <<>> THEN <<>> ELSE <<"?">> \o p.query)

\* urllib.parse.parse_qsl: the (name, value) pairs of a query string, each
\* percent-decoded; a pair without "=" is dropped, and so is a pair with a
\* blank value unless keep_blank_values
RECURSIVE PairsOf(_, _)
PairsOf(segments, keep_blank_values) ==
    IF segments = <<>> THEN <<>>
    ELSE LET nv == Head(segments)
             eq == IndexOf(nv, "=")
             name == Unquote(SubSeq(nv, 1, eq - 1))
             value == Unquote(SubSeq(nv, eq + 1, Len(nv)))
             rest == PairsOf(Tail(segments), keep_blank_values)
         IN  IF nv = <<>> THEN rest
             ELSE IF eq = 0
             THEN (IF keep_blank_values THEN <<<<Unquote(nv), <<>>>>>> \o rest ELSE rest)
             ELSE IF value = <<>> /\ ~keep_blank_values THEN rest
             ELSE <<<<name, value>>>> \o rest
ParseQsl(qs, keep_blank_values) ==
    IF qs = <<>> THEN <<>> ELSE PairsOf(Split(qs, "&"), keep_blank_values)

\* dict(pairs): a key keeps the place of its first pair and the value of its
\* last one
RECURSIVE Dict(_)
Dict(pairs) ==
    IF pairs = <<>> THEN <<>>
    ELSE LET n == Len(pairs)
             init == Dict(SubSeq(pairs, 1, n - 1))
             last == pairs[n]
         IN  IF \E i \in 1..Len(init) : init[i][1] = last[1]
             THEN [i \in 1..Len(init) |->
                      IF init[i][1] = last[1] THEN last ELSE init[i]]
             ELSE Append(init, last)

HasKey(d, key) == \E i \in 1..Len(d) : d[i][1] = <<key>>
DictGet(d, key) == d[CHOOSE i \in 1..Len(d) : d[i][1] = <<key>>][2]
\* dict.pop(key) when the key is present, nothing otherwise
DictPop(d, key) ==
    LET keep == {i \in 1..Len(d) : d[i][1] /= <<key>>}
        nth(k) == CHOOSE i \in keep : Cardinality({j \in keep : j < i}) = k - 1
    IN  [k \in 1..Cardinality(keep) |-> d[nth(k)]]

\* urllib.parse.urlencode(dict, doseq=True) with string values
RECURSIVE UrlEncode(_)
UrlEncode(d) ==
    IF d = <<>> THEN <<>>
    ELSE LET first == QuotePlus(d[1][1]) \o <<"=">> \o QuotePlus(d[1][2])
         IN  IF Len(d) = 1 THEN first
             ELSE first \o <<"&">> \o UrlEncode(Tail(d))

\* SosServiceHandler.get_cleaned_url_params: (new_url, _service, _version,
\* _request), new_url a ParseResult
GetCleanedUrlParams(url0) ==
    LET url == Unquote(url0)
        parsed_url == UrlParse(url)
        get_args == parsed_url.query
        parsed_get_args == Dict(ParseQsl(get_args, FALSE))
        _version == IF HasKey(parsed_get_args, "version")
                    THEN DictGet(parsed_get_args, "version") ELSE <<"2.0.0">>
        _service == IF HasKey(parsed_get_args, "service")
                    THEN Some(DictGet(parsed_get_args, "service")) ELSE None
        _request == IF HasKey(parsed_get_args, "request")
                    THEN Some(DictGet(parsed_get_args, "request")) ELSE None
        remaining == DictPop(DictPop(DictPop(parsed_get_args, "version"),
                                     "service"), "request")
        encoded_get_args == UrlEncode(remaining)
        new_url == [parsed_url EXCEPT !.query = encoded_get_args]
    IN  [new_url |-> new_url, service |-> _service, version |-> _version,
         request |-> _request]

(***************************************************************************)
(* The client factories                                                    *)
(***************************************************************************)
ProxyBase == <<"http", "://", "geonode", "/proxy">>
\* proxy_base as the callers pass it: None, the empty string, or a proxy
ProxyBases == {None, Some(<<>>), Some(ProxyBase)}
SosVersions == {"1.0.0", "2.0.0", "2.0", "1.0", "3.0.0"}
StaVersions == {"1.1", "1.0", "2.0", "1.1.0"}

\* url.startswith('http')
StartsWithHttp(url) == url /= <<>> /\ url[1] \in {"http", "https"}

\* the NotImplementedError of a factory: the version it was asked for and the
\* versions its message tells the caller to use
VersionError(requested, named) ==
    [Raise("NotImplementedError", <<>>) EXCEPT
        !.val = Some([requested |-> requested, named |-> named])]

\* owslib.util.clean_ows_url as SensorObservationService calls it: the URL
\* without its service, version and request parameters
CleanOwsUrl(url) ==
    IF ~StartsWithHttp(url) THEN url
    ELSE LET parsed == UrlParse(url)
             qd == ParseQsl(parsed.query, TRUE)
             keep == {i \in 1..Len(qd) :
                          qd[i][1] \notin {<<"service">>, <<"version">>, <<"request">>}}
             nth(k) == CHOOSE i \in keep : Cardinality({j \in keep : j < i}) = k - 1
             filtered_kvp == [k \in 1..Cardinality(keep) |-> qd[nth(k)]]
         IN  UrlUnparse([parsed EXCEPT !.scheme = url[1],
                                       !.query = UrlEncode(filtered_kvp)])

\* base.get_proxified_ows_url: (version, proxified_url, base_ows_url)
GetProxifiedOwsUrl(url, version, proxy_base) ==
    LET base_ows_url == CleanOwsUrl(url)
    IN  Return(Some([version |-> version,
                     proxified_url |-> proxy_base \o <<"?", "url", "=">> \o Quote(base_ows_url),
                     base_url |-> base_ows_url]), <<>>)

\* get_proxified_sta_url: (version, proxified_url, base_sta_url), or the url
\* itself when it does not start with 'http'
GetProxifiedStaUrl(url, version, proxy_base) ==
    IF ~StartsWithHttp(url) THEN Return(Some([str |-> url]), <<>>)
    ELSE LET parsed == UrlParse(url)
             base_sta_url == UrlUnparse([parsed EXCEPT !.scheme = url[1], !.query = <<>>])
             sta_url == Quote(base_sta_url)
         IN  Return(Some([version |-> version,
                          proxified_url |-> proxy_base \o <<"?", "url", "=">> \o sta_url,
                          base_url |-> base_sta_url]), <<>>)

\* str.rstrip('/') on the symbols of a URL
RECURSIVE RStripSlash(_)
RStripSlash(url) ==
    IF url /= <<>> /\ url[Len(url)] = "/"
    THEN RStripSlash(SubSeq(url, 1, Len(url) - 1))
    ELSE url

\* BaseSensorThingsService.__init__: the client, bound to the url it is
\* given (arg); self.url is the part before the "?" when the url has one
StaClientInit(url, version) ==
    IF IndexOf(url, "?") /= 0
    THEN LET parts == Split(url, "?")
         IN  IF Len(parts) /= 2 THEN Raise("ValueError", <<>>)
             ELSE Return(Some([class |-> "SensorThingsService_1_1",
                               arg |-> url, version |-> version,
                               url |-> parts[1],
                               url_query_string |-> Some(parts[2])]), <<>>)
    ELSE Return(Some([class |-> "SensorThingsService_1_1",
                      arg |-> url, version |-> version,
                      url |-> Append(RStripSlash(url), "/"),
                      url_query_string |-> None]), <<>>)

\* the SOS clients of owslib and sos4py, bound to the url they are given
SosClientInit(class, url, version) ==
    Return(Some([class |-> class, arg |-> url, version |-> version,
                 url |-> url, url_query_string |-> None]), <<>>)

\* what a factory returns: (base url, client)
Connected(base_url, client) ==
    IF client.kind = "raise" THEN client
    ELSE Return(Some([base_url |-> base_url, client |-> client.val[1]]), <<>>)

\* the versions SensorThingsService builds a client for, and the versions
\* its error message names
StaAccepted == {"1.1"}
StaNamed == {"1.0", "1.1"}

\* SensorThingsService
SensorThingsService(url, version0, proxy_base) ==
    LET noProxy == proxy_base = None \/ proxy_base[1] = <<>>
        p == IF noProxy THEN Return(None, <<>>)
             ELSE GetProxifiedStaUrl(url, version0, proxy_base[1])
    IN  IF ~noProxy /\ "str" \in DOMAIN p.val[1]
        THEN Raise("ValueError", <<>>)
        ELSE LET clean_url == IF noProxy THEN url ELSE p.val[1].proxified_url
                 base_sta_url == IF noProxy THEN url ELSE p.val[1].base_url
                 version == IF noProxy THEN version0 ELSE p.val[1].version
             IN  IF version \in StaAccepted
                 THEN Connected(base_sta_url, StaClientInit(clean_url, version))
                 ELSE VersionError(version, StaNamed)

\* the versions SensorObservationService builds a client for, and the
\* versions its error message names
SosAccepted100 == {"1.0.0"}
SosAccepted200 == {"2.0.0", "2.0"}
SosNamed == {"1.0.0", "2.0.0"}

\* SensorObservationService
SensorObservationService(url, version0, proxy_base) ==
    CHOOSE out \in
        {IF c.version \in SosAccepted100
         THEN Connected(c.base_url,
                        SosClientInit("SensorObservationService_1_0_0",
                                      c.clean_url, c.version))
         ELSE IF c.version \in SosAccepted200
         THEN Connected(c.base_url, SosClientInit("sos_2_0_0", c.clean_url, c.version))
         ELSE VersionError(c.version, SosNamed) :
            c \in IF proxy_base = None \/ proxy_base[1] = <<>>
                  THEN {[version |-> version0, clean_url |-> clean_url,
                         base_url |-> clean_url] : clean_url \in {CleanOwsUrl(url)}}
                  ELSE {[version |-> p.version, clean_url |-> p.proxified_url,
                         base_url |-> p.base_url] :
                            p \in {GetProxifiedOwsUrl(url, version0,
                                                      proxy_base[1]).val[1]}}} : TRUE

\* ''.join of the symbols of a string
RECURSIVE Concat(_)
Concat(str) == IF str = <<>> THEN "" ELSE Head(str) \o Concat(Tail(str))

\* SosServiceHandler.parsed_service
SosParsedService(url) ==
    CHOOSE out \in
        {IF r.kind = "raise" THEN r ELSE Return(Some(r.val[1].client), <<>>) :
            r \in {SensorObservationService(UrlUnparse(c.new_url), Concat(c.version),
                                            None) :
                       c \in {GetCleanedUrlParams(url)}}} : TRUE

(***************************************************************************)
(* Calls of the factories and of get_cleaned_url_params, each on arguments *)
(* drawn at the start                                                      *)
(***************************************************************************)
FactoryUrls == {MkUrl(s, p, q) : s \in Schemes, p \in Paths, q \in Queries(1)}
CleanedUrls == {MkUrl(s, <<"/svc">>, q) : s \in {"http", "HTTPS"}, q \in Queries(MaxParams)}
FactoryArgs ==
    {[op |-> "connect", family |-> "SOS", url |-> u, version |-> v, proxy_base |-> p] :
        u \in FactoryUrls, v \in SosVersions, p \in ProxyBases}
    \cup
    {[op |-> "connect", family |-> "STA", url |-> u, version |-> v, proxy_base |-> p] :
        u \in FactoryUrls, v \in StaVersions, p \in ProxyBases}
CleanArgs ==
    {[op |-> "clean", family |-> "SOS", url |-> u, version |-> "", proxy_base |-> None] :
        u \in CleanedUrls}

UrlInit ==
    /\ remote = TheHarvestRemote
    /\ datastreams = None
    /\ lastUpdate = 0
    /\ now = 0
    /\ lastOp = "init"
    /\ ret = Return(None, <<>>)
    /\ arg \in FactoryArgs \cup CleanArgs
    /\ settings = DefaultSettings
    /\ HarvestInit

CallSensorThingsService ==
    /\ lastOp = "init"
    /\ arg.op = "connect" /\ arg.family = "STA"
    /\ ret' = SensorThingsService(arg.url, arg.version, arg.proxy_base)
    /\ lastOp' = "SensorThingsService"
    /\ UNCHANGED <<remote, now, datastreams, lastUpdate>>
    /\ UNCHANGED <<harvestVars, arg, history, geoserver>>

CallSensorObservationService ==
    /\ lastOp = "init"
    /\ arg.op = "connect" /\ arg.family = "SOS"
    /\ ret' = SensorObservationService(arg.url, arg.version, arg.proxy_base)
    /\ lastOp' = "SensorObservationService"
    /\ UNCHANGED <<remote, now, datastreams, lastUpdate>>
    /\ UNCHANGED <<harvestVars, arg, history, geoserver>>

CallGetCleanedUrlParams ==
    /\ lastOp = "init"
    /\ arg.op = "clean"
    /\ ret' = Return(Some(GetCleanedUrlParams(arg.url)), <<>>)
    /\ lastOp' = "get_cleaned_url_params"
    /\ UNCHANGED <<remote, now, datastreams, lastUpdate>>
    /\ UNCHANGED <<harvestVars, arg, history, geoserver>>

CallSosParsedService ==
    /\ lastOp = "init"
    /\ arg.op = "clean"
    /\ ret' = SosParsedService(arg.url)
    /\ lastOp' = "parsed_service"
    /\ UNCHANGED <<remote, now, datastreams, lastUpdate>>
    /\ UNCHANGED <<harvestVars, arg, history, geoserver>>

UrlNext ==
    \/ CallSensorThingsService
    \/ CallSensorObservationService
    \/ CallGetCleanedUrlParams
    \/ CallSosParsedService

SpecUrl == UrlInit /\ [][UrlNext]_vars

(***************************************************************************)
(* Properties of the harvest workflow                                      *)
(***************************************************************************)
\* the canonical fields the handler computes for a resource id, or None when
\* the fetch or the normalization raises
FieldsOf(family, rid) ==
    LET r == GetResource(family, HarvestRemote, rid)
    IN  IF r.kind = "raise" THEN None
        ELSE LET f == IndexedDatasetFields(family, HarvestRemote, r.val)
             IN  IF f.kind = "raise" THEN None ELSE f.val

SameTriple(d, e) ==
    d.name = e.name /\ d.store = e.store /\ d.workspace = e.workspace

SameResource(r1, r2) == r1.family = r2.family /\ r1.rid = r2.rid

\* the datasets of the catalog that carry the triple of a resource
DatasetsOf(family, rid) ==
    {d \in datasets : SameTriple(d, FieldsOf(family, rid)[1])}

\* C1: harvesting resource id X twice in a row for the same service, with
\* the remote unchanged: the call that succeeds leaves exactly one dataset
\* of X in the catalog, every later call for X fails at the existence test
\* with the already-harvested error, and a call leaves datasets and links
\* as they are in every stage up to and including the failing existence
\* test
C1_DuplicateHarvest ==
    /\ [](/\ \A i, j \in 1..Len(results) :
                (i < j /\ SameResource(results[i], results[j])
                       /\ results[i].outcome = "ok")
                => /\ results[j].outcome = "AlreadyHarvested"
                   /\ results[j].stage = "CHECKING_DUPLICATE"
          /\ \A i \in 1..Len(results) :
                results[i].outcome = "ok"
                => Cardinality(DatasetsOf(results[i].family, results[i].rid)) = 1)
    /\ [][\A p \in Procs :
            (pc[p] \in {"FETCHING", "NORMALIZING", "CHECKING_DUPLICATE"}
             /\ pc'[p] /= pc[p])
            => (datasets' = datasets /\ links' = links)]_vars

C1_Witness ==
    \E i, j \in 1..Len(results) :
        /\ i < j
        /\ SameResource(results[i], results[j])
        /\ results[i].outcome = "ok"
        /\ results[j].outcome = "AlreadyHarvested"
        /\ Cardinality(datasets) = 1

\* C2: with harvests running one at a time, the catalog never holds two
\* datasets with the same (name, store, workspace)
C2_UniqueTriple ==
    \A d, e \in datasets : SameTriple(d, e) => d = e

C2_Witness ==
    /\ Len(results) = MaxCalls
    /\ Cardinality(datasets) >= 2
    /\ \E i \in 1..Len(results) : results[i].outcome = "AlreadyHarvested"

\* C3: with overlapping harvests the existence test is the only guard: a
\* call enters CREATING only from a catalog without a dataset of its triple,
\* and its create then adds a row whatever the catalog holds by then, so
\* two datasets with one (name, store, workspace) are reachable
C3_CheckThenCreateIsTheOnlyGuard ==
    [][\A p \in Procs :
          /\ (pc[p] = "CHECKING_DUPLICATE" /\ pc'[p] = "CREATING")
             => ~\E d \in datasets : SameTriple(d, fields[p][1])
          /\ (pc[p] = "CREATING" /\ created[p] = 0 /\ created'[p] /= 0)
             => /\ Cardinality(datasets') = Cardinality(datasets) + 1
                /\ \E d \in datasets' \ datasets : SameTriple(d, fields[p][1])]_vars

C3_Witness ==
    /\ \E d, e \in datasets : d /= e /\ SameTriple(d, e)
    /\ \A p \in {1, 2} : pc[p] = "DONE"
    /\ Len(results) = 2

\* C4: the stages of a call follow each other in the order FETCHING,
\* NORMALIZING, CHECKING_DUPLICATE, CREATING, LINKING, DONE, a stage is left
\* only for the next one or for FAILED, DONE and FAILED are left only by a
\* new call; a dataset row is added only by a call in CREATING that found no
\* dataset of its triple, and a link row is written only by a call in LINKING
\* for the dataset it created
C4_StageOrder ==
    /\ [](\A p \in Procs :
            /\ (pc[p] = "CREATING" /\ created[p] = 0)
               => ~Exists(datasets, fields[p][1].name, fields[p][1].store,
                          fields[p][1].workspace)
            /\ pc[p] = "LINKING" => \E d \in datasets : d.pk = created[p])
    /\ [][/\ \A p \in Procs :
               pc'[p] /= pc[p] =>
                   \/ pc[p] \in {"idle", "DONE", "FAILED"} /\ pc'[p] = "FETCHING"
                   \/ \E i \in 1..(Len(Stages) - 1) :
                          pc[p] = Stages[i] /\ pc'[p] \in {Stages[i + 1], "FAILED"}
          /\ Cardinality(datasets') /= Cardinality(datasets)
             => \E p \in Procs : /\ pc[p] = "CREATING" /\ pc'[p] = "CREATING"
                                 /\ created[p] = 0 /\ created'[p] /= 0
          /\ links' /= links
             => \E p \in Procs : pc[p] = "LINKING" /\ pc'[p] = "DONE"]_vars

C4_Witness ==
    \E i, j \in 1..Len(results) :
        /\ results[i].outcome = "ok" /\ results[i].stage = "LINKING"
        /\ results[j].outcome = "AlreadyHarvested"
        /\ results[j].stage = "CHECKING_DUPLICATE"
        /\ \E p \in Procs : pc[p] = "FAILED"

\* C5: when LINKING fails after CREATING succeeded, the created dataset
\* stays in the catalog without its link, and every later harvest of the
\* same resource id fails with the already-harvested error
C5_NoRollbackNoResume ==
    /\ [](\A i \in 1..Len(results) :
            (results[i].stage = "LINKING" /\ results[i].outcome = "LinkError")
            => /\ \E d \in datasets :
                    /\ SameTriple(d, FieldsOf(results[i].family, results[i].rid)[1])
                    /\ \A l \in links : l.resource /= d.pk
               /\ \A j \in 1..Len(results) :
                    (i < j /\ SameResource(results[i], results[j]))
                    => results[j].outcome = "AlreadyHarvested")
    /\ [][\A d \in datasets : \E e \in datasets' : e.pk = d.pk]_vars

C5_Witness ==
    \E i, j \in 1..Len(results) :
        /\ i < j
        /\ SameResource(results[i], results[j])
        /\ results[i].stage = "LINKING" /\ results[i].outcome = "LinkError"
        /\ results[j].outcome = "AlreadyHarvested"
        /\ links = {}

\* the remote record of a resource id carries a bounding box of fewer than
\* 4 numbers
ShortBBox(family, rid) ==
    LET r == GetResource(family, HarvestRemote, rid)
    IN  /\ r.kind = "return"
        /\ r.val /= None
        /\ IF family = "SOS" THEN Len(r.val[1].bbox) < 4
           ELSE /\ "observedArea" \in DOMAIN r.val[1]
                /\ r.val[1]["observedArea"] /= None
                /\ Len(r.val[1]["observedArea"][1]) < 4

\* C6: a harvest of a record whose bounding box has fewer than 4 numbers
\* fails in NORMALIZING with the invalid-bounding-box error, and the catalog
\* holds no dataset or link for it
C6_ShortBBoxFails ==
    /\ [](/\ \A i \in 1..Len(results) :
                ShortBBox(results[i].family, results[i].rid)
                => /\ results[i].outcome = "InvalidBBox"
                   /\ results[i].stage = "NORMALIZING"
          /\ \A d \in datasets : Len(d.bbox_xy) = 4)
    /\ [][\A p \in Procs :
            (pc[p] = "NORMALIZING" /\ pc'[p] = "FAILED")
            => (datasets' = datasets /\ links' = links)]_vars

C6_Witness ==
    /\ \E i, j \in 1..Len(results) :
        /\ results[i].family = "SOS" /\ ShortBBox("SOS", results[i].rid)
        /\ results[j].family = "STA" /\ ShortBBox("STA", results[j].rid)
        /\ results[i].outcome = "InvalidBBox"
        /\ results[j].outcome = "InvalidBBox"
    /\ datasets = {}
    /\ links = {}

(***************************************************************************)
(* Properties of the STA client                                            *)
(***************************************************************************)
\* the last call was a plain __get_elements of a collection
FetchedAll == lastOp \in {"getFeaturesOfInterest", "getFeaturesForDatastream"}

\* the remote serves every page of its chain, each with a value array
WellFormedChain == remote.kind = "chain" /\ remote.failAt = 0 /\ remote.noValue = 0

\* the URLs of the pages of the chain that starts at url
ChainUrls(url, n) == <<url>> \o [i \in 1..(n - 1) |-> NextUrl(i + 1)]

\* C7: on a finite chain of n >= 1 pages, the last one without a next link,
\* __get_elements returns the concatenation of the pages' value arrays in
\* page order
C7_FetchAllConcatenates ==
    (FetchedAll /\ WellFormedChain /\ remote.endLink = "absent")
    => (ret.kind = "return" /\ ret.val = Some(ChainValues(remote.pages)))

\* C8: on a finite chain whose last page has no next link or an empty one,
\* __get_elements issues exactly one GET per page, and none for an empty
\* link
C8_OneGetPerPage ==
    (FetchedAll /\ WellFormedChain)
    => /\ Len(ret.gets) = remote.pages
       /\ ret.gets = ChainUrls(ret.gets[1], remote.pages)
       /\ \A i \in 1..Len(ret.gets) : ret.gets[i] /= ""

\* a page of the chain requested by the last call failed to load or had no
\* value array
BadPageRequested ==
    /\ remote.kind = "chain"
    /\ remote.endLink = "absent"
    /\ \E i \in 1..Len(ret.gets) :
           LET got == GetJsonData(Responses(remote), ret.gets[i])
           IN  got.st = "fail" \/ (got.st = "ok" /\ VALUE \notin DOMAIN got.body)

\* C9: when a page of the listing fails to load or is malformed, the
\* listing call (get_resources, or __get_elements itself) ends with an
\* error, never with a returned listing, empty or null
C9_ListingErrorReachesCaller ==
    ((lastOp = "get_resources" \/ FetchedAll) /\ BadPageRequested)
    => ret.kind = "raise"

\* the queries of the client other than getDatastreams
LiveQueries ==
    {"getDatastream", "hasDatastreams", "getFeaturesOfInterest",
     "getFeaturesForDatastream", "getSensorNames"}

\* C10: getDatastreams requests the listing exactly when nothing is cached or
\* the cached listing is more than one hour old, and otherwise returns the
\* cached listing and leaves the cache alone; every other query of the
\* client requests the remote on every call and leaves the cache alone
C10_ListingCache ==
    [][/\ (now' = now /\ lastOp' = "getDatastreams")
          => LET fetch == datastreams = None \/ now - HourTicks > lastUpdate
             IN  /\ (ret'.gets /= <<>>) <=> fetch
                 /\ ~fetch => /\ ret' = Return(datastreams, <<>>)
                              /\ datastreams' = datastreams
                              /\ lastUpdate' = lastUpdate
                 /\ (fetch /\ ret'.kind = "return")
                    => (datastreams' = ret'.val /\ lastUpdate' = now)
       /\ (now' = now /\ lastOp' \in LiveQueries)
          => /\ ret'.gets /= <<>>
             /\ datastreams' = datastreams
             /\ lastUpdate' = lastUpdate]_vars

C10_Witness ==
    /\ lastOp = "getDatastreams"
    /\ datastreams /= None
    /\ ret = Return(datastreams, <<>>)
    /\ now = lastUpdate + HourTicks

(***************************************************************************)
(* Properties of the factories and of get_cleaned_url_params               *)
(***************************************************************************)
FactoryCalled == lastOp \in {"SensorThingsService", "SensorObservationService"}
NoProxy == arg.proxy_base = None \/ arg.proxy_base[1] = <<>>

Factory(family, url, version, proxy_base) ==
    IF family = "STA" THEN SensorThingsService(url, version, proxy_base)
    ELSE SensorObservationService(url, version, proxy_base)

\* the versions for which the factory of a family returns a client
AcceptedBy(family) ==
    {v \in SosVersions \cup StaVersions :
        Factory(family, MkUrl("http", <<"/svc">>, <<>>), v, None).kind = "return"}

\* C11: a factory called with a version outside the set it accepts raises
\* the unsupported-version error and returns nothing, called with a version
\* of that set it returns a client, and the versions its error message names
\* as supported are exactly the versions it accepts
C11_UnsupportedVersion ==
    FactoryCalled =>
        LET accepted == AcceptedBy(arg.family)
        IN  /\ arg.version \notin accepted
               => (ret.kind = "raise" /\ ret.err = "NotImplementedError")
            /\ (arg.version \in accepted /\ NoProxy) => ret.kind = "return"
            /\ ret.err = "NotImplementedError" => ret.val[1].named = accepted

\* the URL without its query
WithoutQuery(url) ==
    LET q == IndexOf(url, "?") IN IF q = 0 THEN url ELSE SubSeq(url, 1, q - 1)

\* C12: for a supported version, without a proxy base the factory returns
\* the unproxied URL and a client bound to that URL; with a proxy base the
\* client is bound to the proxy-rewritten URL and the returned base URL is
\* the original endpoint, with no part of the proxy base in it
C12_ProxyIsTransportOnly ==
    (FactoryCalled /\ arg.version \in AcceptedBy(arg.family)) =>
        /\ ret.kind = "return"
        /\ LET out == ret.val[1]
           IN  IF NoProxy
               THEN /\ out.base_url = (IF arg.family = "STA" THEN arg.url
                                       ELSE CleanOwsUrl(arg.url))
                    /\ out.client.arg = out.base_url
               ELSE /\ out.client.arg =
                          arg.proxy_base[1] \o <<"?", "url", "=">> \o Quote(out.base_url)
                    /\ out.base_url \in {arg.url, WithoutQuery(arg.url),
                                         CleanOwsUrl(arg.url)}
                    /\ \A i \in 1..Len(out.base_url) :
                           out.base_url[i] \notin {"geonode", "/proxy"}

Cleaned == lastOp = "get_cleaned_url_params"
Envelope == {<<"version">>, <<"service">>, <<"request">>}
\* the parameters of a URL: the pairs of its query that have a value
ParamsOf(url) == ParseQsl(UrlParse(url).query, FALSE)

\* C13: the URL get_cleaned_url_params returns has none of the parameters
\* version, service and request and has every other parameter of the input
\* with its value; the version it returns is the input's version parameter,
\* or 2.0.0 without one; cleaning the returned URL again returns it unchanged
C13_CleanedUrl ==
    Cleaned =>
        LET out == ret.val[1]
            inp == ParamsOf(arg.url)
            res == ParamsOf(UrlUnparse(out.new_url))
            versions == {inp[i][2] : i \in {j \in 1..Len(inp) : inp[j][1] = <<"version">>}}
        IN  /\ \A i \in 1..Len(res) : res[i][1] \notin Envelope
            /\ \A i \in 1..Len(inp) :
                   inp[i][1] \notin Envelope => \E j \in 1..Len(res) : res[j] = inp[i]
            /\ out.version \in (IF versions = {} THEN {<<"2.0.0">>} ELSE versions)
            /\ GetCleanedUrlParams(UrlUnparse(out.new_url)).new_url = out.new_url

\* str.join
RECURSIVE Join(_, _)
Join(segments, sep) ==
    IF segments = <<>> THEN <<>>
    ELSE IF Len(segments) = 1 THEN segments[1]
    ELSE segments[1] \o <<sep>> \o Join(Tail(segments), sep)

\* the URL with the parameters of its query in the opposite order
Reordered(url) ==
    LET q == UrlParse(url).query
        segments == IF q = <<>> THEN <<>> ELSE Split(q, "&")
        n == Len(segments)
    IN  WithoutQuery(url)
        \o (IF q = <<>> THEN <<>>
            ELSE <<"?">> \o Join([i \in 1..n |-> segments[n + 1 - i]], "&"))

\* the URL with one more parameter
WithParam(url, key, value) ==
    url \o (IF IndexOf(url, "?") = 0 THEN <<"?">> ELSE <<"&">>) \o <<key, "=", value>>

DistinctKeys(url) ==
    LET p == ParamsOf(url)
    IN  \A i, j \in 1..Len(p) : p[i][1] = p[j][1] => i = j

\* C14: two URLs that differ only in the order of their query parameters,
\* or in the presence of a service or request parameter, are cleaned to the
\* same URL string
C14_CleanedUrlIsCanonical ==
    (Cleaned /\ DistinctKeys(arg.url)) =>
        LET cleaned == UrlUnparse(ret.val[1].new_url)
            clean(u) == UrlUnparse(GetCleanedUrlParams(u).new_url)
        IN  /\ clean(Reordered(arg.url)) = cleaned
            /\ ~HasKey(ParamsOf(arg.url), "service")
               => clean(WithParam(arg.url, "service", "SOS")) = cleaned
            /\ ~HasKey(ParamsOf(arg.url), "request")
               => clean(WithParam(arg.url, "request", "GetCapabilities")) = cleaned

(***************************************************************************)
(* Properties of normalization                                             *)
(***************************************************************************)
Normalized(p) == fields[p] /= None

\* the extent of the record a call fetched, as (minx, maxx, miny, maxy): of
\* its box (minx, miny, maxx, maxy) when it has one, of the coordinates of
\* its features of interest otherwise
Extent(family, m) ==
    LET box == IF family = "SOS" THEN Some(m.bbox) ELSE m["observedArea"]
    IN  IF box /= None
        THEN <<box[1][1], box[1][3], box[1][2], box[1][4]>>
        ELSE LET f == GetFeaturesForDatastream(HarvestRemote, m[IOT_ID]).val[1]
                 xs == {f[i]["feature"].coordinates[1] : i \in 1..Len(f)}
                 ys == {f[i]["feature"].coordinates[2] : i \in 1..Len(f)}
                 lo(S) == CHOOSE v \in S : \A w \in S : v <= w
                 hi(S) == CHOOSE v \in S : \A w \in S : v >= w
             IN  <<lo(xs), hi(xs), lo(ys), hi(ys)>>

\* C15: the four numbers normalization hands to the polygon builder are
\* (minx, maxx, miny, maxy) of the record's extent, for a box given on the
\* record and for a box derived from features; the box (1, 2, 3, 4) gives
\* (1, 3, 2, 4)
C15_CanonicalBBoxOrder ==
    \A p \in Procs :
        Normalized(p) =>
            /\ fields[p][1].bbox_xy = Extent(call[p].family, meta[p][1])
            /\ (call[p].family = "SOS" /\ meta[p][1].bbox = <<1, 2, 3, 4>>)
               => fields[p][1].bbox_xy = <<1, 3, 2, 4>>

\* the keywords of the record a call fetched, as the remote names them
SourceKeywords(family, m) ==
    IF family = "SOS" THEN SosKeywordsForResource(m)
    ELSE StaKeywordsForResource(HarvestRemote, m[IOT_ID]).val[1]
Prefix100(s) == IF Len(s) <= 100 THEN s ELSE SubSeq(s, 1, 100)

\* C16: every normalized keyword has at most 100 characters and is the
\* first 100 characters of a keyword of the source, every keyword of the
\* source is there as its first 100 characters, and the stored datasets
\* hold keywords of at most 100 characters
C16_KeywordsTruncated ==
    /\ \A p \in Procs :
           Normalized(p) =>
               LET src == SourceKeywords(call[p].family, meta[p][1])
                   kw == DOMAIN fields[p][1].keywords
               IN  /\ \A k \in kw : Len(k) <= 100 /\ \E s \in src : k = Prefix100(s)
                   /\ \A s \in src : Prefix100(s) \in kw
    /\ \A d \in datasets : \A k \in d.keywords : Len(k) <= 100

C16_Witness ==
    \E d \in datasets :
        /\ Chars(100) \in d.keywords
        /\ Chars(150) \notin d.keywords
        /\ "thermo" \in d.keywords
        /\ Chars(150) \in SosKeywordsForResource(SosContents["a"])

\* the canonical members a Dataset row keeps of the resource_fields it was
\* created from
SameCanonical(d, f) ==
    /\ d.name = f.name /\ d.store = f.store /\ d.workspace = f.workspace
    /\ d.typename = f.typename /\ d.title = f.title /\ d.abstract = f.abstract
    /\ d.bbox_xy = f.bbox_xy /\ d.srid = f.srid

\* the ended calls and the running calls that got past normalization, with
\* the resource_fields each computed
NormalizedCalls ==
    {[family |-> results[i].family, rid |-> results[i].rid, fields |-> results[i].fields[1]] :
        i \in {k \in 1..Len(results) : results[k].fields /= None}}
    \cup {[family |-> call[p].family, rid |-> call[p].rid, fields |-> fields[p][1]] :
              p \in {q \in Procs : Normalized(q)}}

C20_ModerationDefaults ==
    \A d \in datasets :
        /\ d.is_approved = d.is_published
        /\ d.is_approved <=>
               ~(settings.RESOURCE_PUBLISHING \/ settings.ADMIN_MODERATE_UPLOADS)

C20_Witness ==
    /\ \E d \in datasets : ~d.is_approved /\ ~d.is_published
    /\ settings.ADMIN_MODERATE_UPLOADS
    /\ ~settings.RESOURCE_PUBLISHING

\* the lookup of a link row: (resource, name, link_type)
SameLinkKey(l, m) ==
    l.resource = m.resource /\ l.name = m.name /\ l.link_type = m.link_type

\* C18: however often the link step runs for a dataset, the catalog holds
\* fewer than 2 link rows with its resource, name and link type; a run
\* that finds such a row keeps the number of rows and the row's identity,
\* and a run adds a row only for a lookup that had none
C18_LinkCap ==
    /\ [](\A l, m \in links : SameLinkKey(l, m) => l = m)
    /\ [][/\ \A l \in links : \E m \in links' : SameLinkKey(l, m) /\ m.pk = l.pk
          /\ Cardinality(links') <= Cardinality(links) + 1
          /\ Cardinality(links') = Cardinality(links) + 1
             => \E m \in links' : \A l \in links : ~SameLinkKey(l, m)]_vars

C18_Witness ==
    /\ arg = None
    /\ Cardinality(datasets) = 1
    /\ Cardinality(links) = 1
    /\ \E l \in links : l.url = "http://sos/get2"
    /\ \E i \in 1..Len(results) :
           results[i].outcome = "ok" /\ results[i].family = "SOS"

(***************************************************************************)
(* Properties of the keyword listings                                      *)
(***************************************************************************)
\* the STA remote lists no name in any of its collections
StaExposesNothing == \A shape \in {remote.observed, remote.features,
                                    remote.sensors, remote.things} : shape /= "names"
\* the parsed SOS service names no keyword, property, procedure or feature
SosExposesNothing ==
    /\ arg[1].identification.keywords \in {None, Some(<<>>)}
    /\ \A id \in DOMAIN arg[1].contents :
           SosKeywordsForResource(arg[1].contents[id]) = {}
SosResourceExposesNothing ==
    SosKeywordsForResource(arg[1].contents[call[1].rid]) = {}
EmptySet == Return(Some({}), ret.gets)

\* C17: get_keywords and _get_keywords_for_resource of either handler
\* return the empty set, neither null nor an error, when the remote lists
\* no observed property, procedure or sensor, feature or thing, also when
\* a collection answer has no value entries
C17_EmptyKeywords ==
    /\ lastOp \in {"sta.get_keywords", "sta._get_keywords_for_resource"}
       /\ StaExposesNothing => ret = EmptySet
    /\ lastOp = "sos.get_keywords" /\ SosExposesNothing => ret = EmptySet
    /\ lastOp = "sos._get_keywords_for_resource" /\ SosResourceExposesNothing
       => ret = EmptySet

\* C24: when two different keywords of the source, both longer than 100
\* characters, have the same first 100 characters, the keyword list that
\* normalization returns holds that prefix once
C24_SharedPrefixOnce ==
    \A p \in Procs :
        Normalized(p) =>
            LET src == SourceKeywords(call[p].family, meta[p][1])
                kw == fields[p][1].keywords
            IN  \A s1, s2 \in src :
                    (s1 /= s2 /\ Len(s1) > 100 /\ Len(s2) > 100
                     /\ Prefix100(s1) = Prefix100(s2))
                    => kw[Prefix100(s1)] = 1

(***************************************************************************)
(* Properties of the normalization of an STA datastream                    *)
(***************************************************************************)
\* the smallest and the largest number of a non-empty finite set
Least(S) == CHOOSE v \in S : \A w \in S : v <= w
Greatest(S) == CHOOSE v \in S : \A w \in S : v >= w
\* normalization ran on a datastream that has a name and named sensors
FieldsOfNamed ==
    /\ lastOp = "_get_indexed_dataset_fields"
    /\ remote.name = "named"
    /\ remote.sensor /= "missing"

\* C21: for a datastream without observedArea, the box handed to the
\* polygon builder as (x from, x to, y from, y to) is (min x, max x, min y,
\* max y) of the coordinates of its features of interest when it has
\* some, and normalization fails with the invalid-bounding-box error when
\* it has none
C21_DerivedBBox ==
    FieldsOfNamed =>
        IF remote.points = <<>>
        THEN ret.kind = "raise" /\ ret.err = "InvalidBBox"
        ELSE LET xs == {remote.points[i][1] : i \in 1..Len(remote.points)}
                 ys == {remote.points[i][2] : i \in 1..Len(remote.points)}
             IN  /\ ret.kind = "return"
                 /\ ret.val[1].bbox_xy = <<Least(xs), Greatest(xs), Least(ys), Greatest(ys)>>

\* C25: an STA record without a display name (no name member, or "name":
\* null) goes by its @iot.id: as the entry of a name listing, and as the
\* name and the title of the normalized datastream, whose normalization
\* does not fail for the lack of a name
C25_NameFallsBackToId ==
    /\ lastOp = "getSensorNamesForDatastream" /\ remote.sensor /= "named"
       => ret.kind = "return" /\ ret.val = Some(<<"s1">>)
    /\ (/\ lastOp = "_get_indexed_dataset_fields"
        /\ remote.name /= "named"
        /\ remote.sensor = "named"
        /\ remote.points /= <<>>)
       => /\ ret.kind = "return"
          /\ ret.val[1].name = "e"
          /\ ret.val[1].title = "e"

(***************************************************************************)
(* Properties of the link step                                             *)
(***************************************************************************)
\* the GetCapabilities bindings of the service under call that are GET
\* bindings with a url, by position
GetBindings ==
    IF "GetCapabilities" \notin DOMAIN arg[1].operations THEN {}
    ELSE LET ms == arg[1].operations["GetCapabilities"].methods
         IN  {i \in 1..Len(ms) : ms[i].type \in {"Get", "GET"} /\ ms[i].url /= ""}
Linked == pc[1] = "DONE"

\* C22: the url of the link row is the url of the first GET binding with a
\* non-empty url among the GetCapabilities bindings of the service, and
\* the ows_url the dataset was created with (the service url) when the
\* service has no such binding; on both handlers
C22_LinkUrlPrefersGet ==
    Linked =>
        \A l \in links :
            IF GetBindings /= {}
            THEN l.url = arg[1].operations["GetCapabilities"].methods[
                             CHOOSE i \in GetBindings : \A j \in GetBindings : i <= j].url
            ELSE l.url = arg[1].service_url

C22_Witness ==
    /\ Linked
    /\ results[1].family = "SOS"
    /\ Cardinality(links) = 1
    /\ GetBindings = {2}
    /\ Len(arg[1].operations["GetCapabilities"].methods) = 2
    /\ \E l \in links : l.url = "http://sos/get2"

\* the names a listing of the keyword remote serves: of its two items the
\* second has "name": null and goes by its id
Listed(shape, name) == IF shape = "names" THEN {name, "i2"} ELSE {}
ObservedNames == Listed(remote.observed, "temperature")
FeatureNames == Listed(remote.features, "station")
SensorNames == Listed(remote.sensors, "thermo")
AllListingsHaveValue ==
    \A shape \in {remote.observed, remote.features, remote.sensors, remote.things} :
        shape /= "noValue"
OfferingUnderCall == arg[1].contents[call[1].rid]

\* C23: the keywords of a resource are exactly the union of its
\* observed properties, its procedures or sensors and its features of
\* interest
C23_UnionOfThree ==
    /\ lastOp = "sta._get_keywords_for_resource" /\ AllListingsHaveValue
       => ret = Return(Some(ObservedNames \cup SensorNames \cup FeatureNames), ret.gets)
    /\ lastOp = "sos._get_keywords_for_resource"
       => ret = Return(Some(OfferingUnderCall.observed_properties
                            \cup OfferingUnderCall.procedures
                            \cup OfferingUnderCall.features_of_interest), ret.gets)

(***************************************************************************)
(* Properties of the calls on the STA client                               *)
(***************************************************************************)
\* C29: getDatastream(id) asks for the datastream under the quoted id; an
\* answer that reports no error is returned after that one request, and
\* only an answer that reports an error makes it ask under the unquoted
\* id, whose answer it returns
C29_QuotedIdFirst ==
    lastOp = "getDatastream" /\ remote.kind = "chain" =>
        \E id \in ListIds :
            LET first == Responses(remote)[QuotedUrl(id)].body
                second == Responses(remote)[PlainUrl(id)].body
            IN  IF "error" \notin DOMAIN first \/ first["error"] = Null
                THEN ret = Return(Some(first), <<QuotedUrl(id)>>)
                ELSE ret = Return(Some(second), <<QuotedUrl(id), PlainUrl(id)>>)

\* C26: of two get_resources calls on one STA handler less than one hour
\* apart, the first of which fetched the listing, the second issues no
\* request: the two calls together cause one listing fetch
C26_HandlerKeepsListing ==
    \A i \in 1..(Len(history) - 1) :
        (/\ history[i].listed
         /\ history[i].gets /= <<>>
         /\ history[i + 1].at - history[i].at < HourTicks)
        => history[i + 1].gets = <<>>

\* C27: every request a call on the STA client issues (the first page of a
\* listing, each follow-up page, a lookup by id, the count query) is made
\* with the timeout the client is configured with
C27_TimeoutOnEveryRequest ==
    lastOp /= "init" =>
        \A i \in 1..Len(ret.gets) :
            LET request == HttpGetArgs(ret.gets[i])
            IN  /\ "timeout" \in DOMAIN request
                /\ request["timeout"] = ClientTimeout(settings.OGC_SERVER)

(***************************************************************************)
(* Properties of the duplicate guard                                       *)
(***************************************************************************)
\* C30: a harvest is rejected as already harvested only when an earlier
\* call for the same resource id of the same service created its dataset;
\* a resource id harvested for the first time is not rejected, whatever
\* name its record has in common with the records harvested before
C30_GuardIsById ==
    \A j \in 1..Len(results) :
        results[j].outcome = "AlreadyHarvested" =>
            \E i \in 1..(j - 1) :
                /\ SameResource(results[i], results[j])
                /\ results[i].stage \in {"LINKING", "DONE"}

(***************************************************************************)
(* Properties of the cascaded store                                        *)
(***************************************************************************)
StoreOf(name) == CatGetStore(geoserver, name, CascadingWorkspace)
\* caller p makes a request of a call with create=False
WithoutCreate(p) ==
    \/ Provisioning(p) /\ ~arg[p][1].create
    \/ ~Provisioning(p) /\ Provisioning(p)' /\ ~arg'[p][1].create
\* the call of caller p returns
Returns(p) == Provisioning(p) /\ ~Provisioning(p)' /\ ret'.kind = "return"

\* C28: however many calls ask for the store of a service name one after
\* the other, the catalog creates it once: a name has one creation when its
\* store exists and none otherwise; a call with create=True that returns,
\* returns the store of its name as the catalog holds it then; and no
\* request of a call with create=False changes the catalog's stores or
\* creations, the call returning the store of its name or None
C28_OneStoreCreation ==
    /\ [](\A name \in StoreNames :
              geoserver.creations[name] = IF StoreOf(name) /= None THEN 1 ELSE 0)
    /\ [][\A p \in Procs :
             /\ (Returns(p) /\ arg[p][1].create)
                => /\ ret'.val /= None
                   /\ ret'.val[1].name = arg[p][1].name
                   /\ ret'.val = CatGetStore(geoserver', arg[p][1].name,
                                             CascadingWorkspace)
             /\ WithoutCreate(p)
                => /\ geoserver'.stores = geoserver.stores
                   /\ geoserver'.creations = geoserver.creations
             /\ (Returns(p) /\ ~arg[p][1].create)
                => ret'.val = StoreOf(arg[p][1].name)]_vars

C28_Witness ==
    /\ geoserver.calls = 3
    /\ lastOp = "_get_store"
    /\ ~Provisioning(1)
    /\ arg[1] /= None
    /\ arg[1][1].op = "_get_store"
    /\ arg[1][1].create
    /\ ret.kind = "return"
    /\ ret.val /= None
    /\ geoserver.creations[arg[1][1].name] = 1
    /\ Cardinality(geoserver.stores) = 1
    /\ ret.val[1].capabilitiesURL /= None

====
